---- MODULE Spec2Model ----
(***************************************************************************)
(* Recommendle: the preference-duel game service (GameService), the shared *)
(* recommender (RecommenderMongo, PBCFEngineMongo) and the online PCF      *)
(* model (FeatureSpace, PrefixCFModel), as a state machine over the        *)
(* document store.  Every request handler is a process that advances one   *)
(* document-store call (one await) at a time.                               *)
(*                                                                         *)
(* Numbers.  The code computes in float32/float64; the model computes in   *)
(* fixed point with three decimals (1.0 is 1000), truncating.              *)
(***************************************************************************)
EXTENDS Integers, Sequences, FiniteSets, TLC

\* ------------------------------------------------------------------ bounds
\* Items of the catalog (db.products).  At most 50, so that the onboarding
\* pool is the whole catalog (game_service.py:230).
NumProducts == 21
\* The total_rounds every game is created with (routes/game.py:54 passes 5).
MaxTotalRounds == 2
\* Prefix ratings the /rate route is let to insert.
MaxRatings == 2
\* Calls that start while another call is in flight, in one behaviour.
MaxOverlaps == 1
\* Saturation of the counters of PBCF training passes.
MaxTrainCount == 3
MaxSelects == 2
\* Repeats of a cancelled call after which no further call is cancelled.
MaxRetries == 1
BuildCatalogSize == 5
MaxTicks == 2
\* items of a catalog that mixes pens and movies
MixedCatalogSize == 3
\* applications of update_with_prefix_rating to one state
MaxUpdates == 4
RoundOverlaps == 2

\* ------------------------------------------------------- program constants
OnboardingPicks == 10
OnboardingPoolSize == 50
LowTarget == 17
MidTarget == 17
HighTarget == 16
RoundCandidates == 10
Top3 == 3
PointsPerRound == 10
LikelyDraw == 6
NearBoundaryDraw == 8
LikelyRanks == 20
NearBoundaryRanks == 120
Scale == 10 * 10 * 10
InitBias == 0
DecayMilli == 850
ExceptionWeightMilli == 350
SelectionWeightMilli == 1000
ScoreBaseMilli == 3000
ScoreSimMilli == 1700
RatingTanhMilli == 1500
BiasStepMilli == 250
MinRatingMilli == 1000
MaxRatingMilli == 5000
HiddenMinWeightMilli == 150
HiddenMinLatencyMilli == 100
HiddenMinSelections == 3
TopRecommendations == 5
HiddenGemCards == 5

None == "None"

\* ------------------------------------------------------------ fixed point
Abs(x) == IF x < 0 THEN -x ELSE x
Min(a, b) == IF a < b THEN a ELSE b
Max(a, b) == IF a < b THEN b ELSE a
Clamp(x, lo, hi) == Min(hi, Max(lo, x))

RECURSIVE ISqrtRec(_, _, _)
ISqrtRec(n, lo, hi) ==
    IF lo >= hi THEN lo
    ELSE LET mid == (lo + hi + 1) \div 2
         IN  IF mid * mid <= n THEN ISqrtRec(n, mid, hi) ELSE ISqrtRec(n, lo, mid - 1)
\* floor(sqrt(n)) for 0 <= n < 2^31
ISqrt(n) == ISqrtRec(n, 0, 46340)

RECURSIVE SumSeq(_)
SumSeq(s) == IF s = <<>> THEN 0 ELSE Head(s) + SumSeq(Tail(s))

\* np.dot and np.linalg.norm on vectors in thousandths; Dot is in millionths.
Dot(u, v) == SumSeq([i \in 1..Len(u) |-> u[i] * v[i]])
\* Floats do not overflow: a vector with a large entry is scaled down before
\* its products are taken.  Vectors within the range are left as they are.
ReduceFactor(u) ==
    LET magnitude == CHOOSE m \in {Abs(u[i]) : i \in 1..Len(u)} :
                         \A i \in 1..Len(u) : Abs(u[i]) <= m
    IN  IF \A i \in 1..Len(u) : Abs(u[i]) < 30000 THEN 1 ELSE magnitude \div 30000 + 1
Reduced(u) == IF ReduceFactor(u) = 1 THEN u ELSE [i \in 1..Len(u) |-> u[i] \div ReduceFactor(u)]
Norm(u) == IF ReduceFactor(u) = 1 THEN ISqrt(Dot(u, u))
           ELSE ReduceFactor(u) * ISqrt(Dot(Reduced(u), Reduced(u)))

\* math.tanh(x) for x >= 0 in thousandths: the continued fraction
\* x (945 + 105 x^2 + x^4) / (945 + 420 x^2 + 15 x^4), exact to 0.0005 up
\* to x = 3, and 1 from x = 4 on.
TanhMilli(x) ==
    LET x2 == (x * x) \div Scale
        x4 == (x2 * x2) \div Scale
        num == 945 * Scale + 105 * x2 + x4
        den == 945 * Scale + 420 * x2 + 15 * x4
    IN  IF x >= 4 * Scale THEN Scale
        ELSE Min(Scale, (x * (num \div 10)) \div (den \div 10))

\* ---------------------------------------------------------------- catalog
\* db.products: immutable for the game and the recommender.  Ids stand for
\* ObjectIds; str(id) orders as the id does.  Three vendors, prices rising
\* with the id, no product type, tags or options.
ProductIds == 1..NumProducts
VendorOf(i) == <<"lamy", "pilot", "twsbi">>[(i % 3) + 1]
Product(i) ==
    [id |-> i, vendor |-> VendorOf(i), price_min |-> 5 + 2 * i, price_max |-> 9 + 2 * i]
Catalog == [i \in ProductIds |-> Product(i)]
\* An id that is valid as an ObjectId and names no product.
MissingProductId == NumProducts + 1

RECURSIVE SeqToSet(_)
SeqToSet(s) == IF s = <<>> THEN {} ELSE {Head(s)} \cup SeqToSet(Tail(s))
Contains(s, x) == \E i \in 1..Len(s) : s[i] = x
IndexOf(s, x) == CHOOSE i \in 1..Len(s) : s[i] = x /\ \A j \in 1..(i - 1) : s[j] # x

\* ---------------------------------------------------------- FeatureSpace
RECURSIVE VendorKeys(_, _)
VendorKeys(products, acc) ==
    IF products = <<>> THEN acc
    ELSE IF "vendor" \notin DOMAIN Head(products) THEN VendorKeys(Tail(products), acc)
    ELSE LET key == "vendor::" \o Head(products).vendor
         IN  VendorKeys(Tail(products), IF Contains(acc, key) THEN acc ELSE Append(acc, key))

\* prices: the price_min and the price_max that are not None, product by
\* product; product.get(field) is None for a field the document lacks
PriceSamples(products) ==
    LET Field(k) == IF k % 2 = 1 THEN "price_min" ELSE "price_max"
        Present(k) == Field(k) \in DOMAIN products[(k + 1) \div 2]
        present == SelectSeq([k \in 1..(2 * Len(products)) |-> k], Present)
    IN  [j \in 1..Len(present) |-> products[(present[j] + 1) \div 2][Field(present[j])]]

\* np.mean, in thousandths
MeanMilli(samples) == (SumSeq(samples) * Scale) \div Len(samples)
\* np.std (population), in thousandths, computed from deviations in hundredths
StdMilli(samples) ==
    LET m == (SumSeq(samples) * 100) \div Len(samples)
        sq == [k \in 1..Len(samples) |-> (samples[k] * 100 - m) * (samples[k] * 100 - m)]
    IN  ISqrt(SumSeq(sq) \div Len(samples)) * 10

\* FeatureSpace.build(products)
FeatureSpaceBuild(products) ==
    LET samples == PriceSamples(products)
        mean == IF samples = <<>> THEN 0 ELSE MeanMilli(samples)
        std0 == IF samples = <<>> THEN Scale ELSE StdMilli(samples)
        std == IF std0 = 0 THEN Scale ELSE std0
    IN  [feature_index |-> VendorKeys(products, <<>>) \o <<"price_min_z", "price_max_z">>,
         mean_price |-> mean,
         std_price |-> std]

\* FeatureSpace.vectorize(product)
Vectorize(fs, product) ==
    [k \in 1..Len(fs.feature_index) |->
        LET name == fs.feature_index[k]
        IN  IF "vendor" \in DOMAIN product /\ name = "vendor::" \o product.vendor THEN Scale
            ELSE IF name \in {"price_min_z", "price_max_z"}
                 THEN LET field == IF name = "price_min_z" THEN "price_min" ELSE "price_max"
                      IN  IF field \in DOMAIN product
                          THEN ((product[field] * Scale - fs.mean_price) * Scale) \div fs.std_price
                          ELSE 0
            ELSE 0]

\* --------------------------------------------------------- PrefixCFModel
\* PrefixCFModel.init_state
InitState(fs) ==
    [user_vec |-> [k \in 1..Len(fs.feature_index) |-> 0],
     bias |-> InitBias,
     count |-> 0,
     exception_weight |-> ExceptionWeightMilli,
     decay |-> DecayMilli]

\* PrefixCFModel.update_with_selection
UpdateWithSelection(fs, state, product, is_exception) ==
    LET vec == Vectorize(fs, product)
        weight == IF is_exception THEN state.exception_weight ELSE SelectionWeightMilli
    IN  [state EXCEPT
            !.user_vec = [k \in 1..Len(vec) |->
                            (state.decay * state.user_vec[k]) \div Scale
                            + (weight * vec[k]) \div Scale],
            !.count = state.count + 1]

\* PrefixCFModel.predict_prefix_rating
PredictPrefixRating(state) ==
    Clamp(ScoreBaseMilli
            + (RatingTanhMilli * TanhMilli(Norm(state.user_vec) \div 3)) \div Scale
            + state.bias,
          MinRatingMilli, MaxRatingMilli)

\* An update_with_prefix_rating that steps away from the rating
UpdateAwayFromRating(state, rating) ==
    [state EXCEPT
        !.bias = state.bias
                 - (BiasStepMilli * (rating * Scale - PredictPrefixRating(state))) \div Scale]
\* PrefixCFModel.update_with_prefix_rating
UpdateWithPrefixRating(state, rating) ==
    [state EXCEPT
        !.bias = state.bias
                 + (BiasStepMilli * (rating * Scale - PredictPrefixRating(state))) \div Scale]

\* PrefixCFModel.score_item
ScoreItem(state, item_vec) ==
    LET u == Reduced(state.user_vec)
        v == Reduced(item_vec)
        denom == (Norm(u) * Norm(v)) \div Scale
        similarity == IF denom > 0 THEN Dot(u, v) \div denom ELSE 0
    IN  Clamp(ScoreBaseMilli + (ScoreSimMilli * similarity) \div Scale + state.bias,
              MinRatingMilli, MaxRatingMilli)

\* numpy's ValueError: update_with_selection adds a state and a vector of
\* different widths (line 119); score_item takes their np.dot (line 141),
\* which it does only when neither norm is zero
ShapeError == "operands could not be broadcast together"
UpdateRaises(fs, state) == Len(state.user_vec) # Len(fs.feature_index)
ScoreRaises(state, item_vec) ==
    /\ Len(state.user_vec) # Len(item_vec)
    /\ (Norm(Reduced(state.user_vec)) * Norm(Reduced(item_vec))) \div Scale > 0

\* PrefixCFModel.coherence_score: the mean cosine of the pairs with nonzero
\* norms, rescaled to 0..1
CoherenceScore(item_vecs) ==
    LET n == Len(item_vecs)
        vecs == [k \in 1..n |-> Reduced(item_vecs[k])]
        norms == [k \in 1..n |-> Norm(vecs[k])]
        Denom(i, j) == (norms[i] * norms[j]) \div Scale
        Counted(i, j) == i < j /\ Denom(i, j) # 0
        Cosine(i, j) == IF Counted(i, j)
                        THEN Dot(vecs[i], vecs[j]) \div Denom(i, j)
                        ELSE 0
        total == SumSeq([i \in 1..n |-> SumSeq([j \in 1..n |-> Cosine(i, j)])])
        count == Cardinality({p \in (1..n) \X (1..n) : Counted(p[1], p[2])})
    IN  IF n < 2 \/ count = 0 THEN 0
        ELSE (total \div count + Scale) \div 2

\* ------------------------------------------------------------- the store
\* Ids of the documents the handlers create.  A game's learning session is
\* stored under an ObjectId and named in the game, in its selections and in
\* its prefix rating by the string of that id (game_service.py:402, 362, 528).
GameIds == {"g1"}
SessionOf(game_id) == "s_" \o game_id
UserOf(game_id) == "u_" \o game_id
\* datetime fields the handler does not set
NoStamp == 0 - 1

VARIABLES
    clock,           \* datetime.utcnow(), in milliseconds
    products,        \* db.products, in natural order
    games,           \* db.games: game id -> document
    rng_seed,        \* game id -> the stream _rng_for(game_id, ., .) derives from the id
    game_rounds,     \* db.game_rounds: documents in insertion order (_id is the index)
    sessions,        \* db.sessions: session id -> document
    selections,      \* db.selections: the set of documents, each with its _id
    prefix_ratings,  \* db.prefix_ratings: documents in insertion order
    rec,             \* the recommender_mongo singleton
    pbcf,            \* recommender_mongo.pbcf: the PBCFEngineMongo
    started,         \* on_startup has run
    reqs,            \* request slot -> the handler running in it, with its locals
    overlaps,        \* calls started while another call was in flight
    onboarding_accepts,  \* submit_onboarding calls that returned accepted
    accepted_picks,  \* round number -> submit_pick calls that returned a result
    trains_since_rating  \* PBCF training passes since the last prefix rating insert

db == <<games, game_rounds, sessions, selections, prefix_ratings>>
vars == <<clock, products, games, rng_seed, game_rounds, sessions, selections,
          prefix_ratings, rec, pbcf, started, reqs, overlaps, onboarding_accepts,
          accepted_picks, trains_since_rating>>

Slots == {"a", "b"}
Ratings == {4}
Rounds == 1..MaxTotalRounds

ProductById(id) == LET k == CHOOSE k \in 1..Len(products) : products[k].id = id IN products[k]
CatalogIds == {products[k].id : k \in 1..Len(products)}

\* GameService._get_products_by_ids: the products found, in the order asked
GetProductsByIds(ids) ==
    LET Found(id) == id \in CatalogIds
        found == SelectSeq(ids, Found)
    IN  [k \in 1..Len(found) |-> ProductById(found[k])]


\* ------------------------------------------------------------ GameService
\* random.Random(seed).shuffle: the n-th permutation of the stream, a rotation
\* that is reversed for odd n.
Rotate(s, k) == [i \in 1..Len(s) |-> s[((i - 1 + k) % Len(s)) + 1]]
Reverse(s) == [i \in 1..Len(s) |-> s[Len(s) + 1 - i]]
Shuffle(s, n) ==
    IF s = <<>> THEN s
    ELSE IF n % 2 = 1 THEN Reverse(Rotate(s, n % Len(s))) ELSE Rotate(s, n % Len(s))
SeedChoices == {0, 3}

\* GameService._rng_for(game_id, round_number, salt): the stream's position
\* is fixed by the game id and the round.
RngFor(game_id, round_number) == rng_seed[game_id] + 5 * round_number

\* Python's s[a:b]
Slice(s, a, b) == IF a >= Min(b, Len(s)) THEN <<>> ELSE SubSeq(s, a + 1, Min(b, Len(s)))

\* The sort key of _rank_candidates and submit_pick, reverse=True:
\* descending score, ties by descending str(id).
Outranks(x, y) == x.score > y.score \/ (x.score = y.score /\ x.id > y.id)

RECURSIVE SortDesc(_)
SortDesc(S) ==
    IF S = {} THEN <<>>
    ELSE LET top == CHOOSE x \in S : \A y \in S \ {x} : Outranks(x, y)
         IN  <<top>> \o SortDesc(S \ {top})

\* The scoring loop raises numpy's ValueError
RankRaises(fs, state, prods) ==
    \E k \in 1..Len(prods) : ScoreRaises(state, Vectorize(fs, prods[k]))

\* GameService._rank_candidates; also the scoring loop of submit_pick
RankCandidates(fs, state, prods) ==
    SortDesc({[score |-> ScoreItem(state, Vectorize(fs, prods[k])), id |-> prods[k].id]
                : k \in 1..Len(prods)})

\* add_from_pool of _build_round_candidates, the pool already shuffled
RECURSIVE AddFromPool(_, _, _)
AddFromPool(selected_ids, pool_items, target) ==
    IF pool_items = <<>> THEN selected_ids
    ELSE IF Contains(selected_ids, Head(pool_items))
         THEN AddFromPool(selected_ids, Tail(pool_items), target)
    ELSE IF Len(selected_ids) + 1 >= target THEN Append(selected_ids, Head(pool_items))
    ELSE AddFromPool(Append(selected_ids, Head(pool_items)), Tail(pool_items), target)

\* The pool `diverse` of _build_round_candidates: the bottom half of the
\* ranking, cut to the vendors absent from the top 10 when two or more of
\* its items are of such vendors.
DiversePool(ids) ==
    LET likely_vendors == {ProductById(ids[k]).vendor : k \in 1..Min(RoundCandidates, Len(ids))}
        tail == Slice(ids, Len(ids) \div 2, Len(ids))
        OtherVendor(id) == ProductById(id).vendor \notin likely_vendors
        diverse == SelectSeq(tail, OtherVendor)
    IN  IF Len(diverse) < 2 THEN tail ELSE diverse

\* A _build_round_candidates whose targets count the items of each pool
BuildRoundCandidatesPerPool(rng, scored) ==
    LET ids == [k \in 1..Len(scored) |-> scored[k].id]
        s1 == AddFromPool(<<>>, Shuffle(Slice(ids, 0, LikelyRanks), rng), LikelyDraw)
        s2 == AddFromPool(s1, Shuffle(Slice(ids, LikelyRanks, NearBoundaryRanks), rng + 1),
                          LikelyDraw + NearBoundaryDraw)
    IN  Shuffle(Slice(s2, 0, RoundCandidates), rng + 4)
\* GameService._build_round_candidates
BuildRoundCandidates(rng, scored) ==
    LET ids == [k \in 1..Len(scored) |-> scored[k].id]
        likely == Slice(ids, 0, LikelyRanks)
        s1 == AddFromPool(<<>>, Shuffle(likely, rng), LikelyDraw)
        near0 == Slice(ids, LikelyRanks, NearBoundaryRanks)
        near_boundary == IF near0 # <<>> THEN near0 ELSE Slice(ids, LikelyDraw, NearBoundaryRanks)
        s2 == AddFromPool(s1, Shuffle(near_boundary, rng + 1), NearBoundaryDraw)
        s3 == AddFromPool(s2, Shuffle(DiversePool(ids), rng + 2), RoundCandidates)
        s4 == AddFromPool(s3, Shuffle(ids, rng + 3), RoundCandidates)
    IN  IF Len(scored) <= RoundCandidates THEN Shuffle(ids, rng)
        ELSE Shuffle(Slice(s4, 0, RoundCandidates), rng + 4)

\* p.get("price_min") or 0.0
PriceMinOrZero(p) == IF "price_min" \in DOMAIN p THEN p.price_min ELSE 0
\* item.get("vendor") or "Unknown"
VendorOrUnknown(p) == IF "vendor" \in DOMAIN p THEN p.vendor ELSE "Unknown"

\* The while loop of round_robin_pick: vendor_keys are the vendors still to
\* visit in this pass, next_vendor_keys those kept for the next one.
RECURSIVE RoundRobin(_, _, _, _, _)
RoundRobin(vendor_keys, next_vendor_keys, by_vendor, picks, target) ==
    IF Len(picks) >= target THEN picks
    ELSE IF vendor_keys = <<>>
         THEN IF next_vendor_keys = <<>> THEN picks
              ELSE RoundRobin(next_vendor_keys, <<>>, by_vendor, picks, target)
    ELSE LET vendor == Head(vendor_keys)
             items == by_vendor[vendor]
             rest == SubSeq(items, 1, Len(items) - 1)
         IN  IF items = <<>>
             THEN RoundRobin(Tail(vendor_keys), next_vendor_keys, by_vendor, picks, target)
             ELSE RoundRobin(Tail(vendor_keys),
                             IF rest # <<>> THEN Append(next_vendor_keys, vendor)
                             ELSE next_vendor_keys,
                             [by_vendor EXCEPT ![vendor] = rest],
                             Append(picks, items[Len(items)]), target)

\* A round_robin_pick that makes one pass over the vendors
OnePickPerVendor(bucket, target, rng) ==
    LET keys == {VendorOrUnknown(bucket[i]) : i \in 1..Len(bucket)}
        firsts == {i \in 1..Len(bucket) :
                      \A j \in 1..(i - 1) :
                          VendorOrUnknown(bucket[j]) # VendorOrUnknown(bucket[i])}
        picks == [k \in 1..Cardinality(keys) |->
                    bucket[CHOOSE i \in firsts : Cardinality({j \in firsts : j < i}) = k - 1]]
    IN  Slice(picks, 0, target)
\* round_robin_pick of _diverse_onboarding_sample: the bucket grouped by
\* vendor in order of first appearance, each group and then the vendor keys
\* shuffled, one item popped from the end of each vendor's list per pass.
RoundRobinPick(bucket, target, rng) ==
    LET firsts == {i \in 1..Len(bucket) :
                      \A j \in 1..(i - 1) :
                          VendorOrUnknown(bucket[j]) # VendorOrUnknown(bucket[i])}
        keys == [k \in 1..Cardinality(firsts) |->
                    VendorOrUnknown(bucket[CHOOSE i \in firsts :
                                        Cardinality({j \in firsts : j < i}) = k - 1])]
        by_vendor == [vendor \in SeqToSet(keys) |->
                        LET Sells(p) == VendorOrUnknown(p) = vendor
                        IN  Shuffle(SelectSeq(bucket, Sells), rng + IndexOf(keys, vendor))]
    IN  RoundRobin(Shuffle(keys, rng + Len(keys) + 1), <<>>, by_vendor, <<>>, target)

\* sorted(p.get("price_min") or 0.0 for p in products)[index]
SortedPriceAt(prods, index) ==
    CHOOSE v \in {PriceMinOrZero(prods[i]) : i \in 1..Len(prods)} :
        /\ Cardinality({i \in 1..Len(prods) : PriceMinOrZero(prods[i]) < v}) <= index
        /\ Cardinality({i \in 1..Len(prods) : PriceMinOrZero(prods[i]) <= v}) > index

\* GameService._diverse_onboarding_sample
DiverseOnboardingSample(all_products, rng) ==
    LET shuffled == Shuffle(all_products, rng)
        n == Len(shuffled)
        q1 == SortedPriceAt(shuffled, n \div 3)
        q2 == SortedPriceAt(shuffled, (2 * n) \div 3)
        Low(p) == PriceMinOrZero(p) <= q1
        Mid(p) == ~Low(p) /\ PriceMinOrZero(p) <= q2
        High(p) == PriceMinOrZero(p) > q1 /\ PriceMinOrZero(p) > q2
        chosen == RoundRobinPick(SelectSeq(shuffled, Low), LowTarget, rng + 1)
                  \o RoundRobinPick(SelectSeq(shuffled, Mid), MidTarget, rng + 2)
                  \o RoundRobinPick(SelectSeq(shuffled, High), HighTarget, rng + 3)
        NotChosen(p) == \A k \in 1..Len(chosen) : chosen[k].id # p.id
        remainder == Shuffle(SelectSeq(shuffled, NotChosen), rng + 4)
        filled == IF Len(chosen) < OnboardingPoolSize
                  THEN chosen \o Slice(remainder, 0, OnboardingPoolSize - Len(chosen))
                  ELSE chosen
        pool == Shuffle(Slice(filled, 0, OnboardingPoolSize), rng + 5)
    IN  IF Len(all_products) <= OnboardingPoolSize
        THEN [k \in 1..Len(all_products) |-> all_products[k].id]
        ELSE [k \in 1..Len(pool) |-> pool[k].id]

\* GameService._metrics_for_state
MetricsForState(fs, state, selected_ids) ==
    LET prods == GetProductsByIds(selected_ids)
    IN  [coherence_score |-> CoherenceScore([k \in 1..Len(prods) |-> Vectorize(fs, prods[k])]),
         predicted_prefix_rating |-> PredictPrefixRating(state)]

\* The round documents of a game and round, by index
RoundIndexes(game_id, round_number) ==
    {k \in 1..Len(game_rounds) :
        game_rounds[k].game_id = game_id /\ game_rounds[k].round_number = round_number}

\* A find_one({game_id}) that leaves the round number out of its filter
FindRoundOfGame(game_id, round_number) ==
    LET found == {k \in 1..Len(game_rounds) : game_rounds[k].game_id = game_id}
    IN  IF found = {} THEN 0 ELSE CHOOSE k \in found : \A j \in found : k <= j
\* db.game_rounds.find_one({game_id, round_number}): the first match, if any
FindRound(game_id, round_number) ==
    LET found == RoundIndexes(game_id, round_number)
    IN  IF found = {} THEN 0 ELSE CHOOSE k \in found : \A j \in found : k <= j

\* GameService._completed_pick_ids: human picks of the completed rounds,
\* by round number
CompletedPickIds(game_id) ==
    LET done == {k \in 1..Len(game_rounds) :
                    game_rounds[k].game_id = game_id /\ game_rounds[k].completed}
        Order(x, y) == game_rounds[x].round_number < game_rounds[y].round_number
                       \/ (game_rounds[x].round_number = game_rounds[y].round_number /\ x < y)
        sorted == SortSeq([k \in 1..Cardinality(done) |->
                             CHOOSE x \in done : Cardinality({y \in done : y < x}) = k - 1], Order)
    IN  [k \in 1..Len(sorted) |-> game_rounds[sorted[k]].human_pick_id]

\* A submit_onboarding that leaves out the duplicate test of line 488
NoDuplicateTest(ids) == FALSE
\* len(set(selected_product_ids)) != 10
HasDuplicates(ids) == Cardinality(SeqToSet(ids)) # OnboardingPicks


\* ---------------------------------------------------------------- requests
\* A slot holds one handler call: its position (pc), its arguments and its
\* local variables.  A finished call stays in its slot, with its response,
\* until the slot serves the next call.
IdleReq ==
    [op |-> "idle", pc |-> "idle", game_id |-> None, ids |-> <<>>, rating |-> 0,
     round_number |-> 0, product_id |-> 0, game |-> <<>>, round_idx |-> 0,
     candidate_ids |-> <<>>, state |-> <<>>, scored |-> <<>>, selected_ids |-> <<>>,
     metrics |-> <<>>, inserted |-> 0, base_time |-> 0, session |-> <<>>,
     count |-> 0, index |-> 0, model |-> <<>>, is_exception |-> FALSE, ret |-> <<>>, train_ret |-> "idle", snapshot |-> <<>>, trains |-> 0,
     refreshes |-> 0, checks |-> 0, session_id |-> None,
     wrote |-> FALSE, response |-> <<>>]

Free(s) == reqs[s].pc \in {"idle", "done"}
\* The slots after the call in slot s moves to r.  The response of a
\* finished call stays in its slot for one step.
Step(s, r) ==
    [t \in Slots |-> IF t = s THEN r
                     ELSE IF reqs[t].pc = "done" THEN IdleReq
                     ELSE reqs[t]]

\* A call is served in the first free slot
Alone(s) == \A t \in Slots \ {s} : Free(t)
CanStart(s) ==
    /\ started
    /\ Free(s)
    /\ s = "a" \/ ~Free("a")
    /\ Alone(s) \/ overlaps < MaxOverlaps
Overlapped(s) == IF Alone(s) THEN overlaps ELSE overlaps + 1
At(s, op, pc) == reqs[s].op = op /\ reqs[s].pc = pc

\* The call in slot s returns: its arguments, the game it read, the ranking
\* it computed and its response are kept, its other locals are dropped.
Return(r, response) ==
    [IdleReq EXCEPT !.op = r.op, !.pc = "done", !.game_id = r.game_id, !.ids = r.ids,
                    !.rating = r.rating, !.round_number = r.round_number,
                    !.product_id = r.product_id, !.wrote = r.wrote,
                    !.trains = r.trains, !.refreshes = r.refreshes, !.checks = r.checks,
                    !.session_id = r.session_id, !.game = r.game, !.scored = r.scored,
                    !.model = r.model,
                    !.response = <<response>>]
\* raise ValueError(detail): the route answers HTTP 400
Reject(r, detail) == Return(r, [accepted |-> FALSE, detail |-> detail])

Accepted(s) == reqs[s].pc = "done" /\ reqs[s].response[1].accepted
Rejected(s) == reqs[s].pc = "done" /\ ~reqs[s].response[1].accepted

\* GameService._ensure_model after on_startup: the feature space is built
EnsureModel == rec.feature_space[1]

\* ------------------------------------------------------------ create_game
\* One step: no other call can name the user, the session or the game
\* before create_game returns their ids.
PlayerNames == {"ann", " "}
Strip(name) == IF name = " " THEN "" ELSE name

CreateGame(s, player_name, total_rounds, seed) ==
    /\ CanStart(s)
    /\ overlaps' = Overlapped(s)
    /\ LET r == [IdleReq EXCEPT !.op = "create_game"]
           fs == EnsureModel
       IN  IF Strip(player_name) = "" \/ GameIds \subseteq DOMAIN games
           THEN /\ Strip(player_name) = ""
                /\ reqs' = Step(s, Reject(r, "Player name is required"))
                /\ UNCHANGED <<games, sessions, rng_seed>>
           ELSE LET g == CHOOSE g \in GameIds : g \notin DOMAIN games
                    session_doc == [user_id |-> UserOf(g), state |-> <<InitState(fs)>>,
                                    selections |-> {}, prefix_ratings |-> <<>>]
                    game_doc == [status |-> "onboarding", current_round |-> 0,
                                 total_rounds |-> total_rounds, human_score |-> 0,
                                 ai_score |-> 0, learning_user_id |-> UserOf(g),
                                 learning_session_id |-> SessionOf(g),
                                 model_state |-> InitState(fs),
                                 onboarding_pool_ids |-> <<>>,
                                 onboarding_selected_ids |-> <<>>,
                                 onboarding_rating |-> 0]
                IN  /\ sessions' = (SessionOf(g) :> session_doc) @@ sessions
                    /\ games' = (g :> game_doc) @@ games
                    /\ rng_seed' = (g :> seed) @@ rng_seed
                    /\ reqs' = Step(s,
                                  Return([r EXCEPT !.game_id = g, !.wrote = TRUE],
                                         [accepted |-> TRUE, detail |-> "", id |-> g,
                                          status |-> "onboarding",
                                          total_rounds |-> total_rounds]))
    /\ UNCHANGED <<clock, products, game_rounds, selections, prefix_ratings, rec, pbcf,
                   started, onboarding_accepts, accepted_picks, trains_since_rating>>

\* --------------------------------------------------------- get_onboarding
GetOnboardingStart(s, g) ==
    /\ CanStart(s)
    /\ overlaps' = Overlapped(s)
    /\ LET r == [IdleReq EXCEPT !.op = "get_onboarding", !.game_id = g]
       IN  reqs' = Step(s,
             IF g \notin DOMAIN games THEN Reject(r, "Game not found")
             ELSE IF games[g].status = "completed" THEN Reject(r, "Game is already completed")
             ELSE IF games[g].onboarding_pool_ids # <<>>
                  THEN Return(r, [accepted |-> TRUE, detail |-> "",
                                  pool_ids |-> games[g].onboarding_pool_ids])
             ELSE [r EXCEPT !.pc = "go_set_pool", !.game = <<games[g]>>,
                            !.candidate_ids =
                                DiverseOnboardingSample(products, RngFor(g, 0))])
    /\ UNCHANGED <<clock, products, games, rng_seed, game_rounds, sessions, selections,
                   prefix_ratings, rec, pbcf, started, onboarding_accepts, accepted_picks, trains_since_rating>>

GetOnboardingSetPool(s) ==
    /\ At(s, "get_onboarding", "go_set_pool")
    /\ LET r == reqs[s]
       IN  /\ games' = [games EXCEPT ![r.game_id].onboarding_pool_ids = r.candidate_ids]
           /\ reqs' = Step(s,
                         Return([r EXCEPT !.wrote = TRUE],
                                [accepted |-> TRUE, detail |-> "",
                                 pool_ids |-> r.candidate_ids]))
    /\ UNCHANGED <<clock, overlaps, products, rng_seed, game_rounds, sessions, selections,
                   prefix_ratings, rec, pbcf, started, onboarding_accepts,
                   accepted_picks, trains_since_rating>>


\* ------------------------------------------------------ submit_onboarding
\* A submit_onboarding that leaves out the test of lines 484-485
OnboardingNeverSubmitted(game) == FALSE
OnboardingAlreadySubmitted(game) == game.onboarding_selected_ids # <<>>

\* The checks of submit_onboarding on the game it read, in the code's
\* order: the error raised, or "" when the submission passes.
OnboardingError(game, ids) ==
    IF OnboardingAlreadySubmitted(game) THEN "Onboarding already submitted for this game"
    ELSE IF Len(ids) # OnboardingPicks THEN "You must select exactly 10 products"
    ELSE IF HasDuplicates(ids) THEN "Duplicate products are not allowed"
    ELSE IF game.onboarding_pool_ids = <<>> THEN "Onboarding pool is not initialized"
    ELSE IF \E k \in 1..Len(ids) : ~Contains(game.onboarding_pool_ids, ids[k])
         THEN "Selections must come from the onboarding pool"
    ELSE IF Len(GetProductsByIds(ids)) # OnboardingPicks
         THEN "One or more selected products were not found"
    ELSE ""

RECURSIVE AbsorbSelections(_, _, _)
AbsorbSelections(fs, state, prods) ==
    IF prods = <<>> THEN state
    ELSE AbsorbSelections(fs, UpdateWithSelection(fs, state, Head(prods), FALSE), Tail(prods))

\* The state submit_onboarding computes from the game it read (lines 515-518)
\* and persists: the ten selections, then the rating
OnboardingState(fs, game, ids, rating) ==
    UpdateWithPrefixRating(AbsorbSelections(fs, game.model_state, GetProductsByIds(ids)), rating)

ValidOnboarding == [k \in 1..OnboardingPicks |-> k]
OnboardingInputs ==
    { ValidOnboarding,
      SubSeq(ValidOnboarding, 1, OnboardingPicks - 1),
      Append(ValidOnboarding, OnboardingPicks + 1),
      [ValidOnboarding EXCEPT ![OnboardingPicks] = 1],
      [ValidOnboarding EXCEPT ![OnboardingPicks] = MissingProductId] }

SubmitOnboardingStart(s, g, ids, rating) ==
    /\ CanStart(s)
    /\ overlaps' = Overlapped(s)
    /\ LET r == [IdleReq EXCEPT !.op = "submit_onboarding", !.game_id = g, !.ids = ids,
                                !.rating = rating, !.model = rec.feature_space]
       IN  reqs' = Step(s,
             IF g \notin DOMAIN games THEN Reject(r, "Game not found")
             ELSE IF OnboardingError(games[g], ids) # ""
                  THEN Reject(r, OnboardingError(games[g], ids))
             ELSE IF UpdateRaises(r.model[1], games[g].model_state)
                  THEN Reject(r, ShapeError)
             ELSE [r EXCEPT !.pc = "so_insert", !.game = <<games[g]>>,
                            !.base_time = clock])
    /\ UNCHANGED <<clock, products, games, rng_seed, game_rounds, sessions, selections,
                   prefix_ratings, rec, pbcf, started, onboarding_accepts, accepted_picks,
                   trains_since_rating>>

\* The _id insert_one gives the i-th selection inserted by the call of slot s
\* for a round (round 0 is the onboarding): no two inserts share one.  A call
\* that repeats a cancelled one in the same slot gets the next id one stride
\* up, the stride lying above every first-attempt id.
SlotNumber(s) == IF s = "a" THEN 0 ELSE 1
AttemptStride == 2 * (MaxTotalRounds + 2) * (OnboardingPicks + 1) + MaxSelects + 1
InsertedId(s, round_number, i) ==
    LET first == (SlotNumber(s) * (MaxTotalRounds + 2) + round_number)
                     * (OnboardingPicks + 1) + i
        earlier == {d \in selections : d.id % AttemptStride = first}
    IN  first + AttemptStride * Cardinality(earlier)

\* GameService._persist_learning_selection: the Selection inserted ...
SelectionDoc(id, game, product_id, stamp) ==
    [id |-> id, session_id |-> game.learning_session_id, sid_kind |-> "str",
     product_id |-> product_id, is_exception |-> FALSE, created_at |-> stamp]

\* ... and its id pushed on the session.  The session's array of ids is kept
\* as the set of its elements: ids are unique and every reader of the array
\* looks its elements up with $in.
PushSelections(sid, selection_ids) ==
    IF sid \in DOMAIN sessions
    THEN [sessions EXCEPT ![sid].selections = @ \cup selection_ids]
    ELSE sessions

\* The loop of lines 523-525, two steps an iteration: index counts the
\* iterations done.  _persist_learning_selection inserts the Selection ...
SubmitOnboardingInsert(s) ==
    /\ At(s, "submit_onboarding", "so_insert")
    /\ LET r == reqs[s]
           i == r.index + 1
           id == InsertedId(s, 0, i)
       IN  /\ selections' = selections \cup
                 {SelectionDoc(id, r.game[1], r.ids[i], r.base_time + i - 1)}
           /\ reqs' = Step(s, [r EXCEPT !.pc = "so_push", !.wrote = TRUE,
                                        !.inserted = id])
    /\ UNCHANGED <<clock, overlaps, products, games, rng_seed, game_rounds, sessions,
                   prefix_ratings, rec, pbcf, started, onboarding_accepts, accepted_picks,
                   trains_since_rating>>

\* ... and pushes its id on the session
SubmitOnboardingPush(s) ==
    /\ At(s, "submit_onboarding", "so_push")
    /\ LET r == reqs[s]
           i == r.index + 1
       IN  /\ sessions' = PushSelections(r.game[1].learning_session_id, {r.inserted})
           /\ reqs' = Step(s, [r EXCEPT !.index = i,
                                        !.pc = IF i = Len(r.ids) THEN "so_rating"
                                               ELSE "so_insert"])
    /\ UNCHANGED <<clock, overlaps, products, games, rng_seed, game_rounds, selections,
                   prefix_ratings, rec, pbcf, started, onboarding_accepts, accepted_picks,
                   trains_since_rating>>

SubmitOnboardingRating(s) ==
    /\ At(s, "submit_onboarding", "so_rating")
    /\ LET r == reqs[s]
       IN  /\ prefix_ratings' = Append(prefix_ratings,
                 [session_id |-> r.game[1].learning_session_id, sid_kind |-> "str",
                  rating |-> r.rating, created_at |-> r.base_time + 1000])
           /\ reqs' = Step(s, [r EXCEPT !.pc = "so_session",
                                                    !.inserted = Len(prefix_ratings) + 1])
    /\ trains_since_rating' = 0
    /\ UNCHANGED <<clock, overlaps, products, games, rng_seed, game_rounds, sessions, selections,
                   rec, pbcf, started, onboarding_accepts, accepted_picks>>

SubmitOnboardingSession(s) ==
    /\ At(s, "submit_onboarding", "so_session")
    /\ LET r == reqs[s]
           sid == r.game[1].learning_session_id
           state == OnboardingState(r.model[1], r.game[1], r.ids, r.rating)
       IN  /\ sessions' = IF sid \in DOMAIN sessions
                          THEN [sessions EXCEPT ![sid].state = <<state>>,
                                                ![sid].prefix_ratings = Append(@, r.inserted)]
                          ELSE sessions
           /\ reqs' = Step(s, [r EXCEPT !.pc = "so_game"])
    /\ UNCHANGED <<clock, overlaps, products, games, rng_seed, game_rounds, selections, prefix_ratings,
                   rec, pbcf, started, onboarding_accepts, accepted_picks,
                   trains_since_rating>>

SubmitOnboardingGame(s) ==
    /\ At(s, "submit_onboarding", "so_game")
    /\ LET r == reqs[s]
           state == OnboardingState(r.model[1], r.game[1], r.ids, r.rating)
           metrics == MetricsForState(r.model[1], state, r.ids)
       IN  /\ games' = [games EXCEPT ![r.game_id].status = "ready",
                                     ![r.game_id].model_state = state,
                                     ![r.game_id].onboarding_selected_ids = r.ids,
                                     ![r.game_id].onboarding_rating = r.rating]
           /\ reqs' = Step(s,
                         Return(r, [accepted |-> TRUE, detail |-> "",
                                    coherence_score |-> metrics.coherence_score,
                                    predicted_prefix_rating |->
                                        metrics.predicted_prefix_rating,
                                    next_round |-> 1]))
    /\ onboarding_accepts' = onboarding_accepts + 1
    /\ UNCHANGED <<clock, overlaps, products, rng_seed, game_rounds, sessions, selections,
                   prefix_ratings, rec, pbcf, started, accepted_picks,
                   trains_since_rating>>


\* ------------------------------------------------------------ start_round
RoundDoc(game_id, round_number, candidate_ids, pre_metrics) ==
    [game_id |-> game_id, round_number |-> round_number, candidate_ids |-> candidate_ids,
     pre_metrics |-> pre_metrics, completed |-> FALSE, human_pick_id |-> 0,
     ai_pick_id |-> 0, ai_top3_ids |-> <<>>, ai_rank_of_pick |-> 0, ai_correct |-> FALSE,
     human_points |-> 0, ai_points |-> 0, post_metrics |-> <<>>]

\* start_round writing the round with insert_one on a collection without
\* the unique index
InsertRound(rounds, round_doc) == Append(rounds, round_doc)

\* update_one({game_id, round_number}, {$setOnInsert: round_doc}, upsert=True)
\* under the unique index on (game_id, round_number)
UpsertRound(rounds, round_doc) ==
    IF \E k \in 1..Len(rounds) : /\ rounds[k].game_id = round_doc.game_id
                                 /\ rounds[k].round_number = round_doc.round_number
    THEN rounds
    ELSE Append(rounds, round_doc)

\* GameService._current_selection_sequence(game), without include_product_id
CurrentSelectionSequence(game_id, game) ==
    game.onboarding_selected_ids \o CompletedPickIds(game_id)

\* A start_round that leaves out the test of lines 567-568
StartRoundOnboardingOnly(game) ==
    IF Len(game.onboarding_selected_ids) # OnboardingPicks THEN "Onboarding is incomplete"
    ELSE ""
\* The checks of start_round on the game it read (lines 565-568)
StartRoundError(game) ==
    IF Len(game.onboarding_selected_ids) # OnboardingPicks THEN "Onboarding is incomplete"
    ELSE IF game.current_round >= game.total_rounds THEN "Game is complete"
    ELSE ""

\* A start_round that skips a round number
RoundAfterNext(game) == game.current_round + 2
\* round_number = game["current_round"] + 1 (line 570)
NextRoundNumber(game) == game.current_round + 1

StartRoundStart(s, g) ==
    /\ CanStart(s)
    /\ overlaps' = Overlapped(s)
    /\ LET r == [IdleReq EXCEPT !.op = "start_round", !.game_id = g,
                                !.model = rec.feature_space]
       IN  reqs' = Step(s,
             IF g \notin DOMAIN games THEN Reject(r, "Game not found")
             ELSE IF StartRoundError(games[g]) # "" THEN Reject(r, StartRoundError(games[g]))
             ELSE [r EXCEPT !.pc = "sr_find", !.game = <<games[g]>>,
                            !.round_number = NextRoundNumber(games[g])])
    /\ UNCHANGED <<clock, products, games, rng_seed, game_rounds, sessions, selections,
                   prefix_ratings, rec, pbcf, started, onboarding_accepts, accepted_picks,
                   trains_since_rating>>

StartRoundFind(s) ==
    /\ At(s, "start_round", "sr_find")
    /\ LET r == reqs[s]
           existing == FindRound(r.game_id, r.round_number)
       IN  reqs' = Step(s,
             IF existing # 0 /\ ~game_rounds[existing].completed
             THEN Return(r, [accepted |-> TRUE, detail |-> "",
                             round_number |-> r.round_number,
                             candidates |-> game_rounds[existing].candidate_ids,
                             pre_round_metrics |-> game_rounds[existing].pre_metrics])
             ELSE [r EXCEPT !.pc = "sr_picks"])
    /\ UNCHANGED <<clock, overlaps, products, games, rng_seed, game_rounds, sessions, selections,
                   prefix_ratings, rec, pbcf, started, onboarding_accepts,
                   accepted_picks, trains_since_rating>>

StartRoundPicks(s) ==
    /\ At(s, "start_round", "sr_picks")
    /\ LET r == reqs[s]
           fs == EnsureModel
           state == r.game[1].model_state
           selected_ids == CurrentSelectionSequence(r.game_id, r.game[1])
           Unused(p) == ~Contains(selected_ids, p.id)
           candidates_source == SelectSeq(products, Unused)
           scored == RankCandidates(fs, state, candidates_source)
       IN  reqs' = Step(s,
             IF Len(candidates_source) < RoundCandidates
             THEN Reject(r, "Not enough products left to generate a round")
             ELSE IF RankRaises(fs, state, candidates_source) THEN Reject(r, ShapeError)
             ELSE [r EXCEPT !.pc = "sr_upsert",
                            !.candidate_ids =
                                BuildRoundCandidates(RngFor(r.game_id, r.round_number), scored),
                            !.metrics = <<MetricsForState(fs, state, selected_ids)>>])
    /\ UNCHANGED <<clock, overlaps, products, games, rng_seed, game_rounds, sessions, selections,
                   prefix_ratings, rec, pbcf, started, onboarding_accepts,
                   accepted_picks, trains_since_rating>>

StartRoundUpsert(s) ==
    /\ At(s, "start_round", "sr_upsert")
    /\ LET r == reqs[s]
       IN  /\ game_rounds' = UpsertRound(game_rounds,
                 RoundDoc(r.game_id, r.round_number, r.candidate_ids, r.metrics[1]))
           /\ reqs' = Step(s, [r EXCEPT !.pc = "sr_game", !.wrote = TRUE])
    /\ UNCHANGED <<clock, overlaps, products, games, rng_seed, sessions, selections, prefix_ratings,
                   rec, pbcf, started, onboarding_accepts, accepted_picks,
                   trains_since_rating>>

StartRoundGame(s) ==
    /\ At(s, "start_round", "sr_game")
    /\ LET r == reqs[s]
       IN  /\ games' = [games EXCEPT ![r.game_id].status = "playing"]
           /\ reqs' = Step(s,
                         Return(r, [accepted |-> TRUE, detail |-> "",
                                    round_number |-> r.round_number,
                                    candidates |-> r.candidate_ids,
                                    pre_round_metrics |-> r.metrics[1]]))
    /\ UNCHANGED <<clock, overlaps, products, rng_seed, game_rounds, sessions, selections,
                   prefix_ratings, rec, pbcf, started, onboarding_accepts,
                   accepted_picks, trains_since_rating>>


\* ------------------------------------------------------------ submit_pick
\* ObjectId.is_valid: 0 stands for a string that is not an ObjectId
ObjectIdIsValid(id) == id # 0

\* The checks of submit_pick on the game it read
PickGameError(game, round_number, product_id) ==
    IF game.current_round >= game.total_rounds THEN "Game is already complete"
    ELSE IF round_number # game.current_round + 1
         THEN "Invalid round number for current game state"
    ELSE IF ~ObjectIdIsValid(product_id) THEN "Invalid product ID"
    ELSE ""

\* A submit_pick that leaves out the test of lines 658-659
RoundNeverCompleted(round_doc) == FALSE
RoundAlreadyCompleted(round_doc) == round_doc.completed

\* The checks of submit_pick on the round it read (round_idx is 0 for None)
PickRoundError(round_idx, product_id) ==
    IF round_idx = 0 THEN "Round has not been started"
    ELSE IF RoundAlreadyCompleted(game_rounds[round_idx])
         THEN "Round has already been completed"
    ELSE IF ~Contains(game_rounds[round_idx].candidate_ids, product_id)
         THEN "Selected product is not in this round's candidate set"
    ELSE IF product_id \notin CatalogIds THEN "Selected product does not exist"
    ELSE ""

\* scored[:2] in place of scored[:3]
AiTop2Ids(scored) == [k \in 1..Min(2, Len(scored)) |-> scored[k].id]
\* scored[:3] as ids
AiTop3Ids(scored) == [k \in 1..Min(Top3, Len(scored)) |-> scored[k].id]
HumanPoints(ai_correct) == IF ai_correct THEN 0 ELSE PointsPerRound
AiPoints(ai_correct) == IF ai_correct THEN PointsPerRound ELSE 0
\* next((i + 1 for i, (_, p) in enumerate(scored) if id matches), len(scored))
AiRankOfPick(scored, product_id) ==
    IF \E k \in 1..Len(scored) : scored[k].id = product_id
    THEN CHOOSE k \in 1..Len(scored) :
            scored[k].id = product_id /\ \A j \in 1..(k - 1) : scored[j].id # product_id
    ELSE Len(scored)

\* A submit_pick that absorbs the pick before it scores the candidates
StateAfterPick(fs, game, product_id) ==
    UpdateWithSelection(fs, game.model_state, ProductById(product_id), FALSE)
\* The state submit_pick scores the candidates with
ScoringState(fs, game, product_id) == game.model_state
\* The state submit_pick persists
AbsorbPick(fs, state, product_id) == UpdateWithSelection(fs, state, ProductById(product_id), FALSE)

\* Lines 679-699 of submit_pick raise numpy's ValueError: the candidates
\* are vectorized by the recommender's feature space, the pick is absorbed
\* by the model the call was given at line 640
PickRaises(fs, model_fs, game, candidate_ids, product_id) ==
    LET state == ScoringState(fs, game, product_id)
    IN  \/ RankRaises(fs, state, GetProductsByIds(candidate_ids))
        \/ UpdateRaises(model_fs, state)

\* Lines 679-699 of submit_pick: the ranking, the result, the state after
ResolvePick(fs, model_fs, game, candidate_ids, product_id) ==
    LET state == ScoringState(fs, game, product_id)
        scored == RankCandidates(fs, state, GetProductsByIds(candidate_ids))
        ai_top3_ids == AiTop3Ids(scored)
        ai_correct == Contains(ai_top3_ids, product_id)
    IN  [scored |-> scored,
         ai_score |-> scored[1].score,
         ai_pick_id |-> scored[1].id,
         ai_top3_ids |-> ai_top3_ids,
         ai_correct |-> ai_correct,
         ai_exact |-> scored[1].id = product_id,
         human_points |-> HumanPoints(ai_correct),
         ai_points |-> AiPoints(ai_correct),
         ai_rank_of_pick |-> AiRankOfPick(scored, product_id),
         state |-> AbsorbPick(model_fs, state, product_id)]

PickInputs == {0, 1, OnboardingPicks + 1, OnboardingPicks + 3, NumProducts}

SubmitPickStart(s, g, round_number, product_id) ==
    /\ CanStart(s)
    /\ overlaps' = Overlapped(s)
    /\ LET r == [IdleReq EXCEPT !.op = "submit_pick", !.game_id = g,
                                !.round_number = round_number, !.product_id = product_id,
                                !.model = rec.feature_space]
       IN  reqs' = Step(s,
             IF g \notin DOMAIN games THEN Reject(r, "Game not found")
             ELSE IF PickGameError(games[g], round_number, product_id) # ""
                  THEN Reject(r, PickGameError(games[g], round_number, product_id))
             ELSE [r EXCEPT !.pc = "sp_find", !.game = <<games[g]>>])
    /\ UNCHANGED <<clock, products, games, rng_seed, game_rounds, sessions, selections,
                   prefix_ratings, rec, pbcf, started, onboarding_accepts, accepted_picks,
                   trains_since_rating>>

SubmitPickFind(s) ==
    /\ At(s, "submit_pick", "sp_find")
    /\ LET r == reqs[s]
           round_idx == FindRound(r.game_id, r.round_number)
           error == PickRoundError(round_idx, r.product_id)
       IN  reqs' = Step(s,
             IF error # "" THEN Reject(r, error)
             ELSE IF PickRaises(EnsureModel, r.model[1], r.game[1],
                                game_rounds[round_idx].candidate_ids, r.product_id)
                  THEN Reject(r, ShapeError)
             ELSE LET res == ResolvePick(EnsureModel, r.model[1], r.game[1],
                                         game_rounds[round_idx].candidate_ids, r.product_id)
                  IN  [r EXCEPT !.pc = "sp_insert", !.round_idx = round_idx,
                                !.candidate_ids = game_rounds[round_idx].candidate_ids,
                                !.scored = res.scored, !.state = <<res.state>>,
                                !.snapshot = <<res>>])
    /\ UNCHANGED <<clock, overlaps, products, games, rng_seed, game_rounds, sessions, selections,
                   prefix_ratings, rec, pbcf, started, onboarding_accepts,
                   accepted_picks, trains_since_rating>>

\* A submit_pick that writes the session's state where line 701 inserts
SubmitPickStateFirst(s) ==
    /\ At(s, "submit_pick", "sp_insert")
    /\ LET r == reqs[s]
           sid == r.game[1].learning_session_id
       IN  /\ sessions' = IF sid \in DOMAIN sessions
                          THEN [sessions EXCEPT ![sid].state = r.state]
                          ELSE sessions
           /\ reqs' = Step(s, [r EXCEPT !.pc = "sp_push", !.wrote = TRUE])
    /\ UNCHANGED <<clock, overlaps, products, games, rng_seed, game_rounds, selections,
                   prefix_ratings, rec, pbcf, started, onboarding_accepts, accepted_picks,
                   trains_since_rating>>
\* Line 701, _persist_learning_selection: the Selection inserted ...
SubmitPickInsert(s) ==
    /\ At(s, "submit_pick", "sp_insert")
    /\ LET r == reqs[s]
           id == InsertedId(s, r.round_number, 1)
       IN  /\ selections' = selections \cup {SelectionDoc(id, r.game[1], r.product_id, clock)}
           /\ reqs' = Step(s, [r EXCEPT !.pc = "sp_push", !.wrote = TRUE, !.inserted = id])
    /\ UNCHANGED <<clock, overlaps, products, games, rng_seed, game_rounds, sessions,
                   prefix_ratings, rec, pbcf, started, onboarding_accepts, accepted_picks,
                   trains_since_rating>>

\* ... and its id pushed on the session
SubmitPickPush(s) ==
    /\ At(s, "submit_pick", "sp_push")
    /\ LET r == reqs[s]
       IN  /\ sessions' = PushSelections(r.game[1].learning_session_id,
                                         {r.inserted})
           /\ reqs' = Step(s, [r EXCEPT !.pc = "sp_session"])
    /\ UNCHANGED <<clock, overlaps, products, games, rng_seed, game_rounds, selections,
                   prefix_ratings, rec, pbcf, started, onboarding_accepts, accepted_picks,
                   trains_since_rating>>

\* Lines 702-705: the session's state set
SubmitPickSession(s) ==
    /\ At(s, "submit_pick", "sp_session")
    /\ LET r == reqs[s]
           sid == r.game[1].learning_session_id
       IN  /\ sessions' = IF sid \in DOMAIN sessions
                          THEN [sessions EXCEPT ![sid].state = r.state]
                          ELSE sessions
           /\ reqs' = Step(s, [r EXCEPT !.pc = "sp_metrics"])
    /\ UNCHANGED <<clock, overlaps, products, games, rng_seed, game_rounds, selections,
                   prefix_ratings, rec, pbcf, started, onboarding_accepts, accepted_picks,
                   trains_since_rating>>

\* selected_ids and post_metrics (lines 707-708); the sequence is read once
\* more for the explanation (lines 746-748)
SubmitPickMetrics(s) ==
    /\ At(s, "submit_pick", "sp_metrics")
    /\ LET r == reqs[s]
           selected_ids == Append(CurrentSelectionSequence(r.game_id, r.game[1]), r.product_id)
       IN  reqs' = Step(s,
             [r EXCEPT !.pc = "sp_round",
                       !.metrics = <<MetricsForState(EnsureModel, r.state[1], selected_ids)>>])
    /\ UNCHANGED <<clock, overlaps, products, games, rng_seed, game_rounds, sessions, selections,
                   prefix_ratings, rec, pbcf, started, onboarding_accepts,
                   accepted_picks, trains_since_rating>>

SubmitPickRound(s) ==
    /\ At(s, "submit_pick", "sp_round")
    /\ LET r == reqs[s]
           res == r.snapshot[1]
       IN  /\ game_rounds' = [game_rounds EXCEPT ![r.round_idx] =
                 [@ EXCEPT !.human_pick_id = r.product_id,
                           !.ai_pick_id = res.ai_pick_id,
                           !.ai_top3_ids = res.ai_top3_ids,
                           !.ai_rank_of_pick = res.ai_rank_of_pick,
                           !.ai_correct = res.ai_correct,
                           !.human_points = res.human_points,
                           !.ai_points = res.ai_points,
                           !.post_metrics = r.metrics,
                           !.completed = TRUE]]
           /\ reqs' = Step(s, [r EXCEPT !.pc = "sp_game"])
    /\ UNCHANGED <<clock, overlaps, products, games, rng_seed, sessions, selections, prefix_ratings,
                   rec, pbcf, started, onboarding_accepts, accepted_picks,
                   trains_since_rating>>

SubmitPickGame(s) ==
    /\ At(s, "submit_pick", "sp_game")
    /\ LET r == reqs[s]
           game == r.game[1]
           res == r.snapshot[1]
           new_current_round == game.current_round + 1
           new_human_total == game.human_score + res.human_points
           new_ai_total == game.ai_score + res.ai_points
           game_complete == new_current_round >= game.total_rounds
       IN  /\ games' = [games EXCEPT
                 ![r.game_id].current_round = new_current_round,
                 ![r.game_id].human_score = new_human_total,
                 ![r.game_id].ai_score = new_ai_total,
                 ![r.game_id].status = IF game_complete THEN "completed" ELSE "playing",
                 ![r.game_id].model_state = r.state[1]]
           /\ reqs' = Step(s,
                 Return(r, [accepted |-> TRUE, detail |-> "",
                            round_number |-> r.round_number,
                            human_pick |-> r.product_id,
                            ai_pick |-> res.ai_pick_id,
                            ai_correct |-> res.ai_correct,
                            ai_exact |-> res.ai_exact,
                            ai_rank_of_pick |-> res.ai_rank_of_pick,
                            ai_top3_ids |-> res.ai_top3_ids,
                            human_points |-> res.human_points,
                            ai_points |-> res.ai_points,
                            total_human_score |-> new_human_total,
                            total_ai_score |-> new_ai_total,
                            post_round_metrics |-> r.metrics[1],
                            game_complete |-> game_complete]))
           /\ accepted_picks' = [accepted_picks EXCEPT ![r.round_number] = @ + 1]
    /\ UNCHANGED <<clock, overlaps, products, rng_seed, game_rounds, sessions, selections,
                   prefix_ratings, rec, pbcf, started, onboarding_accepts,
                   trains_since_rating>>


\* ------------------------------------------------------- RecommenderMongo
\* RecommenderMongo.refresh, up to its call of _refresh_pbcf
RefreshModel(r) ==
    LET fs == FeatureSpaceBuild(products)
    IN  [r EXCEPT !.feature_space = <<fs>>,
                  !.item_vectors = [k \in 1..Len(products) |->
                                      [id |-> products[k].id, vec |-> Vectorize(fs, products[k])]]]

\* A _refresh_pbcf whose tracked count was invalidated: it always trains
RefreshPbcfAlwaysTrains(count, rating_count) == TRUE
\* _refresh_pbcf's test on the count it read
RefreshPbcfNeedsTrain(count, rating_count) == count # rating_count

\* RecommenderMongo.load_state
LoadState(fs, session) == IF session.state = <<>> THEN InitState(fs) ELSE session.state[1]

\* -------------------------------------------------------- PBCFEngineMongo
\* cursor.sort("created_at", 1): ascending, documents without the field
\* first, ties in insertion order
RECURSIVE SortByCreatedAt(_, _)
SortByCreatedAt(docs, left) ==
    IF left = {} THEN <<>>
    ELSE LET k == CHOOSE k \in left :
                    \A j \in left \ {k} :
                        \/ docs[k].created_at < docs[j].created_at
                        \/ (docs[k].created_at = docs[j].created_at /\ k < j)
         IN  <<docs[k]>> \o SortByCreatedAt(docs, left \ {k})

\* The documents of a set by rising _id
RECURSIVE ById(_)
ById(docs) ==
    IF docs = {} THEN <<>>
    ELSE LET first == CHOOSE d \in docs : \A e \in docs : d.id <= e.id
         IN  <<first>> \o ById(docs \ {first})

\* db.sessions.find_one({"_id": rating["session_id"]}): the sessions are
\* stored under ObjectIds, a stored string matches none of them
RatingSessionFound(rating) == rating.sid_kind = "oid" /\ rating.session_id \in DOMAIN sessions

\* A _prefix_key_for_rating that sorts the selections newest first
PrefixKeyNewestFirst(rating) ==
    LET Earlier(sel) == /\ sel.session_id = rating.session_id
                        /\ sel.sid_kind = rating.sid_kind
                        /\ sel.created_at # NoStamp
                        /\ sel.created_at <= rating.created_at
        found == ById({sel \in selections : Earlier(sel)})
        sorted == SortByCreatedAt(found, 1..Len(found))
    IN  [k \in 1..Len(sorted) |-> sorted[Len(sorted) + 1 - k].product_id]
\* PBCFEngineMongo._prefix_key_for_rating, for a rating with created_at:
\* the product ids of the session's earlier selections (<<>> stands for None)
PrefixKeyForRating(rating) ==
    LET Earlier(sel) == /\ sel.session_id = rating.session_id
                        /\ sel.sid_kind = rating.sid_kind
                        /\ sel.created_at # NoStamp
                        /\ sel.created_at <= rating.created_at
        found == ById({sel \in selections : Earlier(sel)})
        sorted == SortByCreatedAt(found, 1..Len(found))
    IN  [k \in 1..Len(sorted) |-> sorted[k].product_id]

\* The loop of build_matrix over the ratings: the latest rating per
\* (prefix, user) in first-seen order, or the KeyError of rating["created_at"]
RECURSIVE BuildLatest(_, _)
BuildLatest(ratings, latest) ==
    IF ratings = <<>> THEN [raised |-> FALSE, latest |-> latest]
    ELSE LET rating == Head(ratings)
         IN  IF ~RatingSessionFound(rating) THEN BuildLatest(Tail(ratings), latest)
             ELSE IF rating.created_at = NoStamp THEN [raised |-> TRUE, latest |-> latest]
             ELSE LET key == PrefixKeyForRating(rating)
                      user_id == sessions[rating.session_id].user_id
                      Same(e) == e.key = key /\ e.user_id = user_id
                      entry == [key |-> key, user_id |-> user_id,
                                stamp |-> rating.created_at, rating |-> rating.rating]
                  IN  IF key = <<>> THEN BuildLatest(Tail(ratings), latest)
                      ELSE IF \E k \in 1..Len(latest) : Same(latest[k])
                           THEN BuildLatest(Tail(ratings),
                                    [k \in 1..Len(latest) |->
                                        IF Same(latest[k]) /\ entry.stamp > latest[k].stamp
                                        THEN entry ELSE latest[k]])
                      ELSE BuildLatest(Tail(ratings), Append(latest, entry))

RECURSIVE Distinct(_, _)
Distinct(s, acc) ==
    IF s = <<>> THEN acc
    ELSE Distinct(Tail(s), IF Contains(acc, Head(s)) THEN acc ELSE Append(acc, Head(s)))

\* PBCFEngineMongo.build_matrix: "raise", or the artifacts (<<>> for None).
\* Its reads of the ratings, the sessions and the selections are one step.
BuildMatrix ==
    LET ratings == SortByCreatedAt(prefix_ratings, 1..Len(prefix_ratings))
        built == BuildLatest(ratings, <<>>)
        latest == built.latest
    IN  IF built.raised THEN [raised |-> TRUE, artifacts |-> <<>>]
        ELSE IF latest = <<>> THEN [raised |-> FALSE, artifacts |-> <<>>]
        ELSE [raised |-> FALSE,
              artifacts |-> <<[prefix_keys |-> Distinct([k \in 1..Len(latest) |-> latest[k].key], <<>>),
                               user_ids |-> Distinct([k \in 1..Len(latest) |-> latest[k].user_id], <<>>),
                               latest |-> latest]>>]

\* PBCFEngineMongo.train: W and H are set and cleared with the artifacts
Train(engine, built) == [engine EXCEPT !.artifacts = built.artifacts]

\* PBCFEngineMongo.get_stats
GetStats(engine) ==
    IF engine.artifacts = <<>>
    THEN [accepted |-> TRUE, detail |-> "", trained |-> FALSE, prefix_count |-> 0,
          user_count |-> 0, ratings_count |-> 0]
    ELSE [accepted |-> TRUE, detail |-> "", trained |-> TRUE,
          prefix_count |-> Len(engine.artifacts[1].prefix_keys),
          user_count |-> Len(engine.artifacts[1].user_ids),
          ratings_count |-> Len(engine.artifacts[1].latest)]

\* ------------------------------------------------------------- on_startup
\* recommender_mongo.refresh(db), before any request is served
OnStartup ==
    /\ ~started
    /\ started' = TRUE
    /\ LET count == Len(prefix_ratings)
           built == BuildMatrix
           train == RefreshPbcfNeedsTrain(count, rec.rating_count)
       IN  /\ ~(train /\ built.raised)
           /\ rec' = [RefreshModel(rec) EXCEPT
                        !.rating_count = IF train THEN count ELSE rec.rating_count]
           /\ pbcf' = IF train THEN Train(pbcf, built) ELSE pbcf
    /\ UNCHANGED <<clock, overlaps, products, games, rng_seed, game_rounds, sessions, selections,
                   prefix_ratings, reqs, onboarding_accepts, accepted_picks,
                   trains_since_rating>>


\* ----------------------------------------------- recommend and /debug/pbcf
\* sorted(..., key=score, reverse=True): stable, equal scores keep their order
RECURSIVE SortByScoreStable(_, _)
SortByScoreStable(items, left) ==
    IF left = {} THEN <<>>
    ELSE LET k == CHOOSE k \in left :
                    \A j \in left \ {k} :
                        \/ items[k].score > items[j].score
                        \/ (items[k].score = items[j].score /\ k < j)
         IN  <<items[k]>> \o SortByScoreStable(items, left \ {k})

RECURSIVE SortAscending(_)
SortAscending(S) ==
    IF S = {} THEN <<>>
    ELSE LET m == CHOOSE x \in S : \A y \in S : x <= y
         IN  <<m>> \o SortAscending(S \ {m})

\* PBCFEngineMongo.predict_user_ratings once the engine is trained: the
\* prefix keys it predicts for the user.  The factors W and H are not
\* computed; a predicted rating is the user's latest rating of the prefix,
\* or the middle of the scale.
PredictedKeys(engine, user_id) ==
    IF engine.artifacts = <<>> THEN {}
    ELSE IF ~Contains(engine.artifacts[1].user_ids, user_id) THEN {}
    ELSE SeqToSet(engine.artifacts[1].prefix_keys)
PredictedRating(engine, user_id, key) ==
    LET latest == engine.artifacts[1].latest
        Mine(e) == e.key = key /\ e.user_id = user_id
        mine == SelectSeq(latest, Mine)
    IN  IF mine = <<>> THEN ScoreBaseMilli
        ELSE Clamp(mine[1].rating * Scale, MinRatingMilli, MaxRatingMilli)

ItemVector(id) ==
    LET k == CHOOSE k \in 1..Len(rec.item_vectors) : rec.item_vectors[k].id = id
    IN  rec.item_vectors[k].vec
HasItemVector(id) == \E k \in 1..Len(rec.item_vectors) : rec.item_vectors[k].id = id

\* Lines 124-166 of RecommenderMongo.recommend.  random.choice(diverse_pool)
\* is answered by the pool it draws from.
RecommendResult(r, engine) ==
    LET fs == rec.feature_space[1]
        session == r.session[1]
        state == LoadState(fs, session)
        current_prefix == r.selected_ids
        keys == PredictedKeys(engine, session.user_id)
        with_vec == SelectSeq(r.candidate_ids, HasItemVector)
        items == [k \in 1..Len(with_vec) |->
                    LET prefix_key == Append(current_prefix, with_vec[k])
                    IN  [score |-> IF prefix_key \in keys
                                   THEN PredictedRating(engine, session.user_id, prefix_key)
                                   ELSE ScoreItem(state, ItemVector(with_vec[k])),
                         id |-> with_vec[k]]]
        scored == SortByScoreStable(items, 1..Len(items))
        pool_size == Max(RoundCandidates, Len(scored) \div 8)
        diverse_pool == Slice(scored, Max(0, Len(scored) - pool_size), Len(scored))
        selected_vecs == SelectSeq(current_prefix, HasItemVector)
    IN  [accepted |-> TRUE, detail |-> "",
         strong |-> [k \in 1..Min(2, Len(scored)) |-> scored[k].id],
         wildcard_pool |-> {diverse_pool[k].id : k \in 1..Len(diverse_pool)},
         coherence_score |->
             CoherenceScore([k \in 1..Len(selected_vecs) |-> ItemVector(selected_vecs[k])]),
         predicted_prefix_rating |-> PredictPrefixRating(state)]

\* The scoring loop of recommend (lines 128-141) raises numpy's ValueError:
\* a candidate without a predicted rating is scored against the state
RecommendRaises(r, engine) ==
    LET session == r.session[1]
        state == LoadState(rec.feature_space[1], session)
        keys == PredictedKeys(engine, session.user_id)
    IN  \E k \in 1..Len(r.candidate_ids) :
            /\ HasItemVector(r.candidate_ids[k])
            /\ Append(r.selected_ids, r.candidate_ids[k]) \notin keys
            /\ ScoreRaises(state, ItemVector(r.candidate_ids[k]))

\* Where a call goes on when _refresh_pbcf returns to it
Continue(r, engine) ==
    IF Head(r.ret) = "rc_pbcf" THEN [r EXCEPT !.pc = "pb_count", !.ret = <<"rc_load">>]
    ELSE IF Head(r.ret) = "rc_load"
         THEN IF r.session[1].selections # {}
              THEN [r EXCEPT !.pc = "rc_selections", !.ret = <<>>]
              ELSE [r EXCEPT !.pc = "rc_candidates", !.ret = <<>>, !.selected_ids = <<>>]
    ELSE Return(r, GetStats(engine))

ServerError(r) == Return(r, [accepted |-> FALSE, detail |-> "Internal Server Error"])

\* recommend returns its answer, or the route answers HTTP 500
RecommendReturn(r, engine) ==
    IF RecommendRaises(r, engine) THEN ServerError(r)
    ELSE Return(r, RecommendResult(r, engine))

CountTrain(n) == Min(MaxTrainCount, n + 1)

RecommendStart(s, session_id) ==
    /\ CanStart(s)
    /\ overlaps' = Overlapped(s)
    /\ LET r == [IdleReq EXCEPT !.op = "recommend", !.session_id = session_id]
       IN  reqs' = Step(s,
             IF session_id \notin DOMAIN sessions THEN Reject(r, "Session not found")
             ELSE IF rec.item_vectors = <<>>
                  THEN [r EXCEPT !.pc = "rf_products", !.session = <<sessions[session_id]>>,
                                 !.ret = <<"rc_pbcf">>]
             ELSE [r EXCEPT !.pc = "pb_count", !.session = <<sessions[session_id]>>,
                            !.ret = <<"rc_load">>])
    /\ UNCHANGED <<clock, products, games, rng_seed, game_rounds, sessions, selections,
                   prefix_ratings, rec, pbcf, started, onboarding_accepts, accepted_picks,
                   trains_since_rating>>

\* refresh called by recommend: products read, feature space and vectors rebuilt
RefreshProducts(s) ==
    /\ reqs[s].pc = "rf_products"
    /\ rec' = RefreshModel(rec)
    /\ reqs' = Step(s, [reqs[s] EXCEPT !.pc = "pb_count", !.refreshes = @ + 1])
    /\ UNCHANGED <<clock, overlaps, products, games, rng_seed, game_rounds, sessions, selections,
                   prefix_ratings, pbcf, started, onboarding_accepts, accepted_picks,
                   trains_since_rating>>

\* _refresh_pbcf: the ratings counted, compared, the tracked count set, train entered
RefreshPbcf(s) ==
    /\ reqs[s].pc = "pb_count"
    /\ LET count == Len(prefix_ratings)
           r == [reqs[s] EXCEPT !.count = count, !.checks = @ + 1]
       IN  IF RefreshPbcfNeedsTrain(count, rec.rating_count)
           THEN /\ rec' = [rec EXCEPT !.rating_count = count]
                /\ reqs' = Step(s, [r EXCEPT !.pc = "tr_build",
                                                         !.train_ret = "pbcf",
                                                         !.trains = @ + 1])
                /\ trains_since_rating' = CountTrain(trains_since_rating)
           ELSE /\ reqs' = Step(s, Continue(r, pbcf))
                /\ UNCHANGED <<rec, trains_since_rating>>
    /\ UNCHANGED <<clock, overlaps, products, games, rng_seed, game_rounds, sessions, selections,
                   prefix_ratings, pbcf, started, onboarding_accepts, accepted_picks>>

\* PBCFEngineMongo.train: the matrix built, the engine's artifacts replaced
TrainBuild(s) ==
    /\ reqs[s].pc = "tr_build"
    /\ LET r == reqs[s]
           built == BuildMatrix
       IN  IF built.raised
           THEN /\ reqs' = Step(s, ServerError(r))
                /\ UNCHANGED pbcf
           ELSE /\ pbcf' = Train(pbcf, built)
                /\ reqs' = Step(s,
                      IF r.train_ret = "pbcf" THEN Continue(r, Train(pbcf, built))
                      ELSE RecommendReturn(r, Train(pbcf, built)))
    /\ UNCHANGED <<clock, overlaps, products, games, rng_seed, game_rounds, sessions, selections,
                   prefix_ratings, rec, started, onboarding_accepts, accepted_picks,
                   trains_since_rating>>

RecommendSelections(s) ==
    /\ At(s, "recommend", "rc_selections")
    /\ LET r == reqs[s]
           found == {sel \in selections : sel.id \in r.session[1].selections}
       IN  reqs' = Step(s,
             [r EXCEPT !.pc = "rc_candidates",
                       !.selected_ids = SortAscending({sel.product_id : sel \in found})])
    /\ UNCHANGED <<clock, overlaps, products, games, rng_seed, game_rounds, sessions, selections,
                   prefix_ratings, rec, pbcf, started, onboarding_accepts,
                   accepted_picks, trains_since_rating>>

\* A candidates query without its $nin
EveryProduct(selected_ids) == products
\* db.products.find({"_id": {"$nin": selected_object_ids}})
CandidateProducts(selected_ids) ==
    LET NotSelected(p) == ~Contains(selected_ids, p.id)
    IN  SelectSeq(products, NotSelected)

\* The candidates read; predict_user_ratings trains an engine without artifacts
RecommendCandidates(s) ==
    /\ At(s, "recommend", "rc_candidates")
    /\ LET candidates == CandidateProducts(reqs[s].selected_ids)
           r == [reqs[s] EXCEPT !.candidate_ids = [k \in 1..Len(candidates) |-> candidates[k].id]]
       IN  IF pbcf.artifacts = <<>>
           THEN /\ reqs' = Step(s, [r EXCEPT !.pc = "tr_build",
                                                         !.train_ret = "predict",
                                                         !.trains = @ + 1])
                /\ trains_since_rating' = CountTrain(trains_since_rating)
           ELSE /\ reqs' = Step(s, RecommendReturn(r, pbcf))
                /\ UNCHANGED trains_since_rating
    /\ UNCHANGED <<clock, overlaps, products, games, rng_seed, game_rounds, sessions, selections,
                   prefix_ratings, rec, pbcf, started, onboarding_accepts,
                   accepted_picks>>

PbcfDebugStart(s) ==
    /\ CanStart(s)
    /\ overlaps' = Overlapped(s)
    /\ reqs' = Step(s,
                  [IdleReq EXCEPT !.op = "pbcf_debug", !.pc = "pb_count", !.ret = <<"dbg_stats">>])
    /\ UNCHANGED <<clock, products, games, rng_seed, game_rounds, sessions, selections,
                   prefix_ratings, rec, pbcf, started, onboarding_accepts, accepted_picks,
                   trains_since_rating>>

\* ------------------------------------------------------------ rate_prefix
RatePrefixStart(s, session_id, rating) ==
    /\ CanStart(s)
    /\ overlaps' = Overlapped(s)
    /\ Len(prefix_ratings) < MaxRatings
    /\ LET r == [IdleReq EXCEPT !.op = "rate_prefix", !.session_id = session_id,
                                !.rating = rating]
       IN  reqs' = Step(s,
             IF session_id \notin DOMAIN sessions THEN Reject(r, "Session not found")
             ELSE [r EXCEPT !.pc = "rp_insert", !.session = <<sessions[session_id]>>])
    /\ UNCHANGED <<clock, products, games, rng_seed, game_rounds, sessions, selections,
                   prefix_ratings, rec, pbcf, started, onboarding_accepts, accepted_picks,
                   trains_since_rating>>

RatePrefixInsert(s) ==
    /\ At(s, "rate_prefix", "rp_insert")
    /\ LET r == reqs[s]
       IN  /\ prefix_ratings' = Append(prefix_ratings,
                 [session_id |-> r.session_id, sid_kind |-> "oid", rating |-> r.rating,
                  created_at |-> NoStamp])
           /\ reqs' = Step(s, [r EXCEPT !.pc = "rp_push", !.wrote = TRUE,
                                                    !.inserted = Len(prefix_ratings) + 1])
    /\ trains_since_rating' = 0
    /\ UNCHANGED <<clock, overlaps, products, games, rng_seed, game_rounds, sessions, selections,
                   rec, pbcf, started, onboarding_accepts, accepted_picks>>

RatePrefixPush(s) ==
    /\ At(s, "rate_prefix", "rp_push")
    /\ LET r == reqs[s]
       IN  /\ sessions' = [sessions EXCEPT ![r.session_id].prefix_ratings =
                                               Append(@, r.inserted)]
           /\ reqs' = Step(s, [r EXCEPT !.pc = "rp_save"])
    /\ UNCHANGED <<clock, overlaps, products, games, rng_seed, game_rounds, selections, prefix_ratings,
                   rec, pbcf, started, onboarding_accepts, accepted_picks,
                   trains_since_rating>>

\* RecommenderMongo.update_with_prefix_rating on the session read at the start
RatePrefixSave(s) ==
    /\ At(s, "rate_prefix", "rp_save")
    /\ LET r == reqs[s]
           state == UpdateWithPrefixRating(LoadState(rec.feature_space[1], r.session[1]),
                                           r.rating)
       IN  /\ sessions' = [sessions EXCEPT ![r.session_id].state = <<state>>]
           /\ reqs' = Step(s, Return(r, [accepted |-> TRUE, detail |-> "",
                                                     status |-> "ok"]))
    /\ UNCHANGED <<clock, overlaps, products, games, rng_seed, game_rounds, selections, prefix_ratings,
                   rec, pbcf, started, onboarding_accepts, accepted_picks,
                   trains_since_rating>>

\* ------------------------------------------------------- create_session
\* Sessions and users of the sessions API; the user exists
ApiSessions == {"s1"}

\* One step: no other call can name the session before its id is returned
CreateSession(s) ==
    /\ CanStart(s)
    /\ overlaps' = Overlapped(s)
    /\ ~(ApiSessions \subseteq DOMAIN sessions)
    /\ LET sid == CHOOSE sid \in ApiSessions : sid \notin DOMAIN sessions
           session_doc == [user_id |-> "u1", state |-> <<>>, selections |-> {},
                           prefix_ratings |-> <<>>]
           r == [IdleReq EXCEPT !.op = "create_session", !.session_id = sid, !.wrote = TRUE]
       IN  /\ sessions' = (sid :> session_doc) @@ sessions
           /\ reqs' = Step(s, Return(r, [accepted |-> TRUE, detail |-> "", id |-> sid]))
    /\ UNCHANGED <<clock, products, games, rng_seed, game_rounds, selections, prefix_ratings,
                   rec, pbcf, started, onboarding_accepts, accepted_picks,
                   trains_since_rating>>

\* --------------------------------------------------------- select_product
\* The Selection records inserted by select_product
ApiSelections == {sel \in selections : sel.sid_kind = "oid"}

\* The session and the product read
SelectProductStart(s, session_id, product_id, is_exception) ==
    /\ CanStart(s)
    /\ overlaps' = Overlapped(s)
    /\ Cardinality(ApiSelections) < MaxSelects
    /\ LET r == [IdleReq EXCEPT !.op = "select_product", !.session_id = session_id,
                                !.product_id = product_id, !.is_exception = is_exception]
       IN  reqs' = Step(s,
             IF session_id \notin DOMAIN sessions THEN Reject(r, "Session not found")
             ELSE IF product_id \notin CatalogIds THEN Reject(r, "Product not found")
             ELSE [r EXCEPT !.pc = "sel_insert", !.session = <<sessions[session_id]>>])
    /\ UNCHANGED <<clock, products, games, rng_seed, game_rounds, sessions, selections,
                   prefix_ratings, rec, pbcf, started, onboarding_accepts, accepted_picks,
                   trains_since_rating>>

\* selection_doc inserted: session_id, product_id and is_exception only
SelectProductInsert(s) ==
    /\ At(s, "select_product", "sel_insert")
    /\ LET r == reqs[s]
           \* an _id above every id the game inserts
           id == InsertedId("b", MaxTotalRounds + 1, OnboardingPicks)
                 + Cardinality(ApiSelections) + 1
       IN  /\ selections' = selections \cup
                 {[id |-> id, session_id |-> r.session_id, sid_kind |-> "oid",
                   product_id |-> r.product_id, is_exception |-> r.is_exception,
                   created_at |-> NoStamp]}
           /\ reqs' = Step(s, [r EXCEPT !.pc = "sel_push", !.wrote = TRUE, !.inserted = id])
    /\ UNCHANGED <<clock, overlaps, products, games, rng_seed, game_rounds, sessions,
                   prefix_ratings, rec, pbcf, started, onboarding_accepts, accepted_picks,
                   trains_since_rating>>

SelectProductPush(s) ==
    /\ At(s, "select_product", "sel_push")
    /\ sessions' = PushSelections(reqs[s].session_id, {reqs[s].inserted})
    /\ reqs' = Step(s, [reqs[s] EXCEPT !.pc = "sel_save"])
    /\ UNCHANGED <<clock, overlaps, products, games, rng_seed, game_rounds, selections,
                   prefix_ratings, rec, pbcf, started, onboarding_accepts, accepted_picks,
                   trains_since_rating>>

\* RecommenderMongo.update_with_selection on the session read at the start
SelectProductSave(s) ==
    /\ At(s, "select_product", "sel_save")
    /\ LET r == reqs[s]
           fs == rec.feature_space[1]
           state == LoadState(fs, r.session[1])
       IN  IF UpdateRaises(fs, state)
           THEN /\ reqs' = Step(s, ServerError(r))
                /\ UNCHANGED sessions
           ELSE /\ sessions' = [sessions EXCEPT ![r.session_id].state =
                                    <<UpdateWithSelection(fs, state, ProductById(r.product_id),
                                                          r.is_exception)>>]
                /\ reqs' = Step(s, Return(r, [accepted |-> TRUE, detail |-> "",
                                              status |-> "ok"]))
    /\ UNCHANGED <<clock, overlaps, products, games, rng_seed, game_rounds, selections,
                   prefix_ratings, rec, pbcf, started, onboarding_accepts, accepted_picks,
                   trains_since_rating>>

\* ---------------------------------------------- hidden-preference discovery
\* Steps 1-4 of PrefixCFModel.detect_hidden_preferences, for a state as wide
\* as the feature index: the features kept, by falling latency.  Weights,
\* frequencies and latencies are in thousandths, which round(x, 4) leaves as
\* they are.
HiddenCandidates(fs, state, selected_products) ==
    LET n == Len(fs.feature_index)
        abs_vec == [k \in 1..n |-> Abs(state.user_vec[k])]
        max_val == CHOOSE v \in SeqToSet(abs_vec) : \A k \in 1..n : abs_vec[k] <= v
        pvecs == [j \in 1..Len(selected_products) |-> Vectorize(fs, selected_products[j])]
        pref_weight == [k \in 1..n |-> (abs_vec[k] * Scale) \div max_val]
        freq_vec == [k \in 1..n |->
                        (Cardinality({j \in 1..Len(pvecs) : pvecs[j][k] # 0}) * Scale)
                        \div Len(selected_products)]
        latency == [k \in 1..n |-> pref_weight[k] - freq_vec[k]]
        Kept(k) == /\ pref_weight[k] >= HiddenMinWeightMilli
                   /\ latency[k] >= HiddenMinLatencyMilli
                   /\ fs.feature_index[k] \notin {"price_min_z", "price_max_z"}
        kept == SelectSeq([k \in 1..n |-> k], Kept)
        results == [i \in 1..Len(kept) |->
                      [feature |-> fs.feature_index[kept[i]], score |-> latency[kept[i]],
                       weight |-> pref_weight[kept[i]]]]
        sorted == SortByScoreStable(results, 1..Len(results))
    IN  IF n = 0 THEN <<>>
        ELSE IF max_val = 0 THEN <<>>
        ELSE [i \in 1..Len(sorted) |->
                [feature |-> sorted[i].feature, latency |-> sorted[i].score,
                 weight |-> sorted[i].weight]]

\* A detect_hidden_preferences without the test of state.count
DetectHiddenAtAnyCount(fs, state, selected_products, top_n) ==
    IF selected_products = <<>> THEN <<>>
    ELSE Slice(HiddenCandidates(fs, state, selected_products), 0, top_n)
\* PrefixCFModel.detect_hidden_preferences
DetectHiddenPreferences(fs, state, selected_products, top_n) ==
    IF state.count < HiddenMinSelections \/ selected_products = <<>> THEN <<>>
    ELSE Slice(HiddenCandidates(fs, state, selected_products), 0, top_n)

\* The scoring loop of get_hidden_gem_products over the products whose id
\* is not in selected_ids; a product stands in the result by its id, and
\* a similarity is in thousandths
HiddenGemScores(fs, state, hidden, selected_ids, all_products) ==
    LET hidden_indices == {k \in 1..Len(fs.feature_index) :
                             \E i \in 1..Len(hidden) : hidden[i].feature = fs.feature_index[k]}
        hidden_vec == [k \in 1..Len(state.user_vec) |->
                         IF k \in hidden_indices THEN state.user_vec[k] ELSE 0]
        hidden_norm == Norm(hidden_vec)
        Entry(product) ==
            LET item_vec == Vectorize(fs, product)
                item_norm == Norm(item_vec)
                matched == SelectSeq([k \in 1..Len(item_vec) |-> k],
                                     LAMBDA k : k \in hidden_indices /\ item_vec[k] # 0)
            IN  IF product.id \in selected_ids \/ item_norm = 0 \/ matched = <<>> THEN <<>>
                ELSE <<[score |-> Dot(hidden_vec, item_vec)
                                  \div Max(1, (hidden_norm * item_norm) \div Scale),
                        id |-> product.id,
                        matched |-> [i \in 1..Len(matched) |-> fs.feature_index[matched[i]]]]>>
        RECURSIVE Gather(_)
        Gather(k) == IF k > Len(all_products) THEN <<>>
                     ELSE Entry(all_products[k]) \o Gather(k + 1)
        scored == Gather(1)
    IN  IF hidden_norm = 0 THEN <<>>
        ELSE SortByScoreStable(scored, 1..Len(scored))

\* A get_hidden_gem_products that scores the selected products as well
HiddenGemsOfEveryProduct(fs, state, selected_products, all_products, top_n) ==
    LET hidden == DetectHiddenPreferences(fs, state, selected_products, 10)
    IN  IF hidden = <<>> THEN <<>>
        ELSE Slice(HiddenGemScores(fs, state, hidden, {}, all_products), 0, top_n)
\* PrefixCFModel.get_hidden_gem_products
GetHiddenGemProducts(fs, state, selected_products, all_products, top_n) ==
    LET hidden == DetectHiddenPreferences(fs, state, selected_products, 10)
        selected_ids == {selected_products[j].id : j \in 1..Len(selected_products)}
    IN  IF hidden = <<>> THEN <<>>
        ELSE Slice(HiddenGemScores(fs, state, hidden, selected_ids, all_products), 0, top_n)

\* -------------------------------------------- get_game_status, get_game_summary
\* The status the router answers with: a ValueError of the service becomes
\* HTTP 400 in every route but get_game_status, which answers 404; any
\* other exception is FastAPI's 500
HttpStatus(r) ==
    IF r.response[1].accepted THEN 200
    ELSE IF r.response[1].detail = "Internal Server Error" THEN 500
    ELSE IF r.op = "get_game_status" THEN 404
    ELSE 400

\* GameService.get_game_status: two reads, no write
GetGameStatus(s, g) ==
    /\ CanStart(s)
    /\ overlaps' = Overlapped(s)
    /\ LET r == [IdleReq EXCEPT !.op = "get_game_status", !.game_id = g]
           active == {k \in 1..Len(game_rounds) :
                        game_rounds[k].game_id = g /\ ~game_rounds[k].completed}
           first == CHOOSE k \in active :
                        \A j \in active : game_rounds[k].round_number <= game_rounds[j].round_number
       IN  reqs' = Step(s,
             IF g \notin DOMAIN games THEN Reject(r, "Game not found")
             ELSE Return([r EXCEPT !.game = <<games[g]>>],
                         [accepted |-> TRUE, detail |-> "", id |-> g,
                          status |-> games[g].status,
                          current_round |-> games[g].current_round,
                          total_rounds |-> games[g].total_rounds,
                          human_score |-> games[g].human_score,
                          ai_score |-> games[g].ai_score,
                          onboarding_complete |->
                              Len(games[g].onboarding_selected_ids) = OnboardingPicks,
                          round_in_progress |->
                              IF active = {} THEN <<>>
                              ELSE <<game_rounds[first].round_number>>]))
    /\ UNCHANGED <<clock, products, games, rng_seed, game_rounds, sessions, selections,
                   prefix_ratings, rec, pbcf, started, onboarding_accepts, accepted_picks,
                   trains_since_rating>>

\* GameService.get_game_summary: reads of a completed game, no write.  The
\* charts, the learned likes and the narrative are texts of what is kept here.
GetGameSummary(s, g) ==
    /\ CanStart(s)
    /\ overlaps' = Overlapped(s)
    /\ LET r0 == [IdleReq EXCEPT !.op = "get_game_summary", !.game_id = g,
                                 !.model = rec.feature_space]
       IN  reqs' = Step(s,
             IF g \notin DOMAIN games THEN Reject(r0, "Game not found")
             ELSE IF games[g].status # "completed"
                  THEN Reject(r0, "Game is not yet completed")
             ELSE LET r == [r0 EXCEPT !.game = <<games[g]>>]
                      fs == EnsureModel
                      state == games[g].model_state
                      selected_ids == CurrentSelectionSequence(g, games[g])
                      scored == RankCandidates(fs, state, products)
                      top5_ids == [k \in 1..Min(TopRecommendations, Len(scored)) |-> scored[k].id]
                      selected_products == GetProductsByIds(selected_ids)
                      hidden_raw == DetectHiddenPreferences(fs, state, selected_products, 6)
                      gems == GetHiddenGemProducts(fs, state, selected_products, products, 10)
                      cards == Slice(SelectSeq(gems, LAMBDA gem : ~Contains(top5_ids, gem.id)),
                                     0, HiddenGemCards)
                  IN  IF RankRaises(fs, state, products) \/ UpdateRaises(fs, state)
                      THEN Reject(r, ShapeError)
                      ELSE Return([r EXCEPT !.selected_ids = selected_ids],
                                  [accepted |-> TRUE, detail |-> "", game_id |-> g,
                                   human_score |-> games[g].human_score,
                                   ai_score |-> games[g].ai_score,
                                   top5_recommendations |-> top5_ids,
                                   hidden_preferences |-> hidden_raw,
                                   hidden_gems_products |->
                                       [k \in 1..Len(cards) |-> cards[k].id],
                                   selected_ids |-> selected_ids]))
    /\ UNCHANGED <<clock, products, games, rng_seed, game_rounds, sessions, selections,
                   prefix_ratings, rec, pbcf, started, onboarding_accepts, accepted_picks,
                   trains_since_rating>>

\* ------------------------------------------------------- category_profiles
\* A str is the sequence of its pieces: a whitespace character or a word.
\* str.lower() maps a word to its lower-case spelling, str.strip() drops the
\* whitespace at both ends.  None is <<>>, a str s is <<s>>.
Whitespace == {" ", "\t"}
Lower(word) ==
    CASE word \in {"Movies", "MOVIES"} -> "movies"
      [] word \in {"Fountain_Pens", "FOUNTAIN_PENS"} -> "fountain_pens"
      [] OTHER -> word

\* category_profiles.normalize_category
NormalizeCategory(value) ==
    LET RECURSIVE LStrip(_)
        LStrip(s) == IF s # <<>> /\ Head(s) \in Whitespace THEN LStrip(Tail(s)) ELSE s
        RECURSIVE Join(_)
        Join(s) == IF s = <<>> THEN "" ELSE Head(s) \o Join(Tail(s))
        stripped == Reverse(LStrip(Reverse(LStrip(value[1]))))
        normalized == Join([k \in 1..Len(stripped) |-> Lower(stripped[k])])
    IN  IF value = <<>> THEN [accepted |-> TRUE, detail |-> "", category |-> "fountain_pens"]
        ELSE IF normalized \in {"fountain_pens", "movies"}
             THEN [accepted |-> TRUE, detail |-> "", category |-> normalized]
        ELSE [accepted |-> FALSE, detail |-> "Unsupported category", category |-> ""]

\* ------------------------------------------------------- the specifications
Init ==
    /\ clock = 0
    /\ products \in {<<>>, Catalog}
    /\ games = <<>>
    /\ rng_seed = <<>>
    /\ game_rounds = <<>>
    /\ sessions = <<>>
    /\ selections = {}
    /\ prefix_ratings = <<>>
    /\ rec = [feature_space |-> <<>>, item_vectors |-> <<>>, rating_count |-> 0]
    /\ pbcf = [artifacts |-> <<>>]
    /\ started = FALSE
    /\ reqs = [s \in Slots |-> IdleReq]
    /\ overlaps = 0
    /\ onboarding_accepts = 0
    /\ accepted_picks = [n \in Rounds |-> 0]
    /\ trains_since_rating = 0

\* The game: every GameService handler that writes
NextGame ==
    \/ OnStartup
    \/ \E s \in Slots :
        \/ \E name \in PlayerNames, seed \in SeedChoices :
              CreateGame(s, name, MaxTotalRounds, seed)
        \/ \E g \in GameIds : GetOnboardingStart(s, g)
        \/ GetOnboardingSetPool(s)
        \/ \E g \in GameIds, ids \in OnboardingInputs, rating \in Ratings :
              SubmitOnboardingStart(s, g, ids, rating)
        \/ SubmitOnboardingInsert(s)
        \/ SubmitOnboardingPush(s)
        \/ SubmitOnboardingRating(s)
        \/ SubmitOnboardingSession(s)
        \/ SubmitOnboardingGame(s)
        \/ \E g \in GameIds : StartRoundStart(s, g)
        \/ StartRoundFind(s)
        \/ StartRoundPicks(s)
        \/ StartRoundUpsert(s)
        \/ StartRoundGame(s)
        \/ \E g \in GameIds, n \in Rounds, product_id \in PickInputs :
              SubmitPickStart(s, g, n, product_id)
        \/ SubmitPickFind(s)
        \/ SubmitPickInsert(s)
        \/ SubmitPickPush(s)
        \/ SubmitPickSession(s)
        \/ SubmitPickMetrics(s)
        \/ SubmitPickRound(s)
        \/ SubmitPickGame(s)

SpecGame == Init /\ [][NextGame]_vars


\* The recommender: the routes that read or feed the PBCF engine, and the
\* game's onboarding, which inserts a prefix rating
NextPbcf ==
    \/ OnStartup
    \/ \E s \in Slots :
        \/ CreateGame(s, "ann", MaxTotalRounds, 0)
        \/ \E g \in GameIds : GetOnboardingStart(s, g)
        \/ GetOnboardingSetPool(s)
        \/ \E g \in GameIds, rating \in Ratings :
              SubmitOnboardingStart(s, g, ValidOnboarding, rating)
        \/ SubmitOnboardingInsert(s)
        \/ SubmitOnboardingPush(s)
        \/ SubmitOnboardingRating(s)
        \/ SubmitOnboardingSession(s)
        \/ SubmitOnboardingGame(s)
        \/ \E g \in GameIds, rating \in Ratings : RatePrefixStart(s, SessionOf(g), rating)
        \/ RatePrefixInsert(s)
        \/ RatePrefixPush(s)
        \/ RatePrefixSave(s)
        \/ \E g \in GameIds : RecommendStart(s, SessionOf(g))
        \/ RefreshProducts(s)
        \/ RefreshPbcf(s)
        \/ TrainBuild(s)
        \/ RecommendSelections(s)
        \/ RecommendCandidates(s)
        \/ PbcfDebugStart(s)

SpecPbcf == Init /\ [][NextPbcf]_vars

\* The sessions API: a session created, products selected, the prefix rated,
\* recommendations asked
NextSession ==
    \/ OnStartup
    \/ \E s \in Slots :
        \/ CreateSession(s)
        \/ \E sid \in ApiSessions, product_id \in {1, 2, MissingProductId}, is_exception \in BOOLEAN :
              SelectProductStart(s, sid, product_id, is_exception)
        \/ SelectProductInsert(s)
        \/ SelectProductPush(s)
        \/ SelectProductSave(s)
        \/ \E sid \in ApiSessions, rating \in Ratings : RatePrefixStart(s, sid, rating)
        \/ RatePrefixInsert(s)
        \/ RatePrefixPush(s)
        \/ RatePrefixSave(s)
        \/ \E sid \in ApiSessions : RecommendStart(s, sid)
        \/ RefreshProducts(s)
        \/ RefreshPbcf(s)
        \/ TrainBuild(s)
        \/ RecommendSelections(s)
        \/ RecommendCandidates(s)

SpecSession == Init /\ [][NextSession]_vars

\* A request cancelled at one of its awaits: the store call it waits for has
\* been applied (the step before) or is never made; nothing more is written
Cancel(s) ==
    /\ reqs[s].pc \notin {"idle", "done"}
    /\ reqs' = Step(s, Return(reqs[s], [accepted |-> FALSE, detail |-> "cancelled"]))
    /\ UNCHANGED <<clock, overlaps, products, games, rng_seed, game_rounds, sessions, selections,
                   prefix_ratings, rec, pbcf, started, onboarding_accepts, accepted_picks,
                   trains_since_rating>>

\* The calls that absorb a selection, one at a time, any of them cancelled
\* at any await
\* How often a cancelled call that had inserted a Selection was repeated
RetryDepth ==
    LET attempts == {d.id \div AttemptStride : d \in selections} \cup {0}
    IN  CHOOSE n \in attempts : \A k \in attempts : k <= n
NextCancel ==
    \/ OnStartup
    \/ \E s \in {"a"} :
        \/ RetryDepth < MaxRetries /\ Cancel(s)
        \/ CreateGame(s, "ann", MaxTotalRounds, 0)
        \/ \E g \in GameIds : GetOnboardingStart(s, g)
        \/ GetOnboardingSetPool(s)
        \/ \E g \in GameIds, rating \in Ratings :
              /\ Len(prefix_ratings) < MaxRatings
              /\ SubmitOnboardingStart(s, g, ValidOnboarding, rating)
        \/ SubmitOnboardingInsert(s)
        \/ SubmitOnboardingPush(s)
        \/ SubmitOnboardingRating(s)
        \/ SubmitOnboardingSession(s)
        \/ SubmitOnboardingGame(s)
        \/ \E g \in GameIds : StartRoundStart(s, g)
        \/ StartRoundFind(s)
        \/ StartRoundPicks(s)
        \/ StartRoundUpsert(s)
        \/ StartRoundGame(s)
        \/ \E g \in GameIds, n \in Rounds : SubmitPickStart(s, g, n, NumProducts)
        \/ SubmitPickFind(s)
        \/ SubmitPickInsert(s)
        \/ SubmitPickPush(s)
        \/ SubmitPickSession(s)
        \/ SubmitPickMetrics(s)
        \/ SubmitPickRound(s)
        \/ SubmitPickGame(s)
        \/ CreateSession(s)
        \/ \E sid \in ApiSessions : SelectProductStart(s, sid, 1, FALSE)
        \/ SelectProductInsert(s)
        \/ SelectProductPush(s)
        \/ SelectProductSave(s)

SpecCancel == Init /\ [][NextCancel]_vars

\* datetime.utcnow() read later: more than the second that submit_onboarding
\* adds to the stamp of its rating has passed
Tick ==
    /\ clock < MaxTicks * 1500
    /\ clock' = clock + 1500
    /\ UNCHANGED <<overlaps, products, games, rng_seed, game_rounds, sessions, selections,
                   prefix_ratings, rec, pbcf, started, reqs, onboarding_accepts,
                   accepted_picks, trains_since_rating>>

\* The prefixes: onboardings not submitted in the order of the ids, as time
\* passes, and recommendations asked for the game's learning session
SwappedOnboarding == [ValidOnboarding EXCEPT ![1] = 2, ![2] = 1]
NextKeys ==
    \/ OnStartup
    \/ Tick
    \/ \E s \in Slots :
        \/ CreateGame(s, "ann", MaxTotalRounds, 0)
        \/ \E g \in GameIds : GetOnboardingStart(s, g)
        \/ GetOnboardingSetPool(s)
        \/ \E g \in GameIds, rating \in Ratings :
              SubmitOnboardingStart(s, g, SwappedOnboarding, rating)
        \/ SubmitOnboardingInsert(s)
        \/ SubmitOnboardingPush(s)
        \/ SubmitOnboardingRating(s)
        \/ SubmitOnboardingSession(s)
        \/ SubmitOnboardingGame(s)
        \/ \E g \in GameIds : RecommendStart(s, SessionOf(g))
        \/ RefreshProducts(s)
        \/ RefreshPbcf(s)
        \/ TrainBuild(s)
        \/ RecommendSelections(s)
        \/ RecommendCandidates(s)

SpecKeys == Init /\ [][NextKeys]_vars

\* The ingest script fills db.products of a server started on an empty store
LoadCatalog ==
    /\ started
    /\ products = <<>>
    /\ products' = Catalog
    /\ UNCHANGED <<clock, overlaps, games, rng_seed, game_rounds, sessions, selections,
                   prefix_ratings, rec, pbcf, started, reqs, onboarding_accepts,
                   accepted_picks, trains_since_rating>>

\* The feature space replaced under a running game: recommend refreshes the
\* recommender when it holds no item vectors
NextSwap ==
    \/ OnStartup
    \/ LoadCatalog
    \/ \E s \in Slots :
        \/ CreateGame(s, "ann", MaxTotalRounds, 0)
        \/ \E g \in GameIds : GetOnboardingStart(s, g)
        \/ GetOnboardingSetPool(s)
        \/ \E g \in GameIds, rating \in Ratings :
              SubmitOnboardingStart(s, g, ValidOnboarding, rating)
        \/ SubmitOnboardingInsert(s)
        \/ SubmitOnboardingPush(s)
        \/ SubmitOnboardingRating(s)
        \/ SubmitOnboardingSession(s)
        \/ SubmitOnboardingGame(s)
        \/ \E g \in GameIds : StartRoundStart(s, g)
        \/ StartRoundFind(s)
        \/ StartRoundPicks(s)
        \/ StartRoundUpsert(s)
        \/ StartRoundGame(s)
        \/ \E g \in GameIds, n \in Rounds : SubmitPickStart(s, g, n, NumProducts)
        \/ SubmitPickFind(s)
        \/ SubmitPickInsert(s)
        \/ SubmitPickPush(s)
        \/ SubmitPickSession(s)
        \/ SubmitPickMetrics(s)
        \/ SubmitPickRound(s)
        \/ SubmitPickGame(s)
        \/ \E g \in GameIds : RecommendStart(s, SessionOf(g))
        \/ RefreshProducts(s)
        \/ RefreshPbcf(s)
        \/ TrainBuild(s)
        \/ RecommendSelections(s)
        \/ RecommendCandidates(s)

SpecSwap == Init /\ [][NextSwap]_vars

\* The feature space built at startup from a small catalog, which
\* db.products.find() returns in any order
InitBuild ==
    /\ products \in
          LET n == BuildCatalogSize
              orders == {p \in [1..n -> 1..n] : \A i, j \in 1..n : p[i] = p[j] => i = j}
          IN  {[k \in 1..n |-> Product(p[k])] : p \in orders}
    /\ clock = 0
    /\ games = <<>>
    /\ rng_seed = <<>>
    /\ game_rounds = <<>>
    /\ sessions = <<>>
    /\ selections = {}
    /\ prefix_ratings = <<>>
    /\ rec = [feature_space |-> <<>>, item_vectors |-> <<>>, rating_count |-> 0]
    /\ pbcf = [artifacts |-> <<>>]
    /\ started = FALSE
    /\ reqs = [s \in Slots |-> IdleReq]
    /\ overlaps = 0
    /\ onboarding_accepts = 0
    /\ accepted_picks = [n \in Rounds |-> 0]
    /\ trains_since_rating = 0

NextBuild == OnStartup

SpecBuild == InitBuild /\ [][NextBuild]_vars

\* A catalog that mixes the two categories.  A document holds the fields
\* its category's ingest wrote: a movie has no price, a pen no release year;
\* a field may be missing in either.
MixedKinds == {"pen", "pen_plain", "movie", "movie_no_studio"}
MixedItem(kind, i) ==
    CASE kind = "pen" ->
            [id |-> i, category |-> "fountain_pens", vendor |-> "lamy",
             price_min |-> 20 + 5 * i, price_max |-> 25 + 5 * i]
      [] kind = "pen_plain" ->
            [id |-> i, category |-> "fountain_pens", price_min |-> 25, price_max |-> 25]
      [] kind = "movie" ->
            [id |-> i, category |-> "movies", vendor |-> "warner bros",
             release_year |-> 2017, runtime_minutes |-> 141]
      [] kind = "movie_no_studio" ->
            [id |-> i, category |-> "movies", release_year |-> 2014]

\* CategoryProfile.numeric_fields
NumericFields(category) ==
    IF category = "movies"
    THEN {"release_year", "runtime_minutes", "vote_average", "popularity"}
    ELSE {"price_min", "price_max"}

InitMixed ==
    /\ products \in {[k \in 1..MixedCatalogSize |-> MixedItem(kinds[k], k)] :
                        kinds \in [1..MixedCatalogSize -> MixedKinds]}
    /\ clock = 0
    /\ games = <<>>
    /\ rng_seed = <<>>
    /\ game_rounds = <<>>
    /\ sessions = <<>>
    /\ selections = {}
    /\ prefix_ratings = <<>>
    /\ rec = [feature_space |-> <<>>, item_vectors |-> <<>>, rating_count |-> 0]
    /\ pbcf = [artifacts |-> <<>>]
    /\ started = FALSE
    /\ reqs = [s \in Slots |-> IdleReq]
    /\ overlaps = 0
    /\ onboarding_accepts = 0
    /\ accepted_picks = [n \in Rounds |-> 0]
    /\ trains_since_rating = 0

NextMixed == OnStartup

SpecMixed == InitMixed /\ [][NextMixed]_vars

\* detect_hidden_preferences and get_hidden_gem_products as functions of their
\* arguments, over the feature space of a small catalog.  The state is one
\* that a test hands in: any weights, any count.  Slot a holds the call.
HiddenWeights == {0, 120, 500, 1000}
HiddenSelections == {<<>>, <<1>>, <<4>>, <<1, 4>>, <<1, 2>>, <<1, 2, 3>>, <<3, 1, 4>>}
InitHidden ==
    /\ products = [k \in 1..BuildCatalogSize |-> Product(k)]
    /\ rec = RefreshModel([feature_space |-> <<>>, item_vectors |-> <<>>, rating_count |-> 0])
    /\ reqs \in
          {[s \in Slots |->
              IF s = "b" THEN IdleReq
              ELSE [IdleReq EXCEPT
                      !.op = op, !.pc = "call", !.selected_ids = ids, !.count = top_n,
                      !.state = <<[InitState(FeatureSpaceBuild(products)) EXCEPT
                                      !.user_vec = <<w[1], w[2], w[3], price, 0>>,
                                      !.count = count]>>]] :
             op \in {"detect_hidden_preferences", "get_hidden_gem_products"},
             ids \in HiddenSelections, top_n \in {1, 6},
             w \in [1..3 -> HiddenWeights], price \in {0, 0 - 2000},
             count \in {HiddenMinSelections - 1, HiddenMinSelections}}
    /\ started = TRUE
    /\ clock = 0
    /\ games = <<>>
    /\ rng_seed = <<>>
    /\ game_rounds = <<>>
    /\ sessions = <<>>
    /\ selections = {}
    /\ prefix_ratings = <<>>
    /\ pbcf = [artifacts |-> <<>>]
    /\ overlaps = 0
    /\ onboarding_accepts = 0
    /\ accepted_picks = [n \in Rounds |-> 0]
    /\ trains_since_rating = 0

DetectHiddenCall ==
    /\ At("a", "detect_hidden_preferences", "call")
    /\ LET r == reqs["a"]
       IN  reqs' = [reqs EXCEPT !["a"] =
                      [r EXCEPT !.pc = "done",
                                !.response = <<DetectHiddenPreferences(
                                                  EnsureModel, r.state[1],
                                                  GetProductsByIds(r.selected_ids), r.count)>>]]
    /\ UNCHANGED <<clock, overlaps, products, games, rng_seed, game_rounds, sessions,
                   selections, prefix_ratings, rec, pbcf, started, onboarding_accepts,
                   accepted_picks, trains_since_rating>>

HiddenGemsCall ==
    /\ At("a", "get_hidden_gem_products", "call")
    /\ LET r == reqs["a"]
       IN  reqs' = [reqs EXCEPT !["a"] =
                      [r EXCEPT !.pc = "done",
                                !.response = <<GetHiddenGemProducts(
                                                  EnsureModel, r.state[1],
                                                  GetProductsByIds(r.selected_ids),
                                                  products, r.count)>>]]
    /\ UNCHANGED <<clock, overlaps, products, games, rng_seed, game_rounds, sessions,
                   selections, prefix_ratings, rec, pbcf, started, onboarding_accepts,
                   accepted_picks, trains_since_rating>>

NextHidden == DetectHiddenCall \/ HiddenGemsCall

SpecHidden == InitHidden /\ [][NextHidden]_vars

\* One player who plays a game to its end and reads its status and its
\* summary at any time, one call after the other
NextSummary ==
    \/ OnStartup
    \/ \E seed \in SeedChoices : CreateGame("a", "ann", MaxTotalRounds, seed)
    \/ \E g \in GameIds :
        \/ GetOnboardingStart("a", g)
        \/ \E rating \in Ratings : SubmitOnboardingStart("a", g, ValidOnboarding, rating)
        \/ StartRoundStart("a", g)
        \/ \E n \in Rounds, product_id \in PickInputs : SubmitPickStart("a", g, n, product_id)
        \/ GetGameStatus("a", g)
        \/ GetGameSummary("a", g)
    \/ GetOnboardingSetPool("a")
    \/ SubmitOnboardingInsert("a")
    \/ SubmitOnboardingPush("a")
    \/ SubmitOnboardingRating("a")
    \/ SubmitOnboardingSession("a")
    \/ SubmitOnboardingGame("a")
    \/ StartRoundFind("a")
    \/ StartRoundPicks("a")
    \/ StartRoundUpsert("a")
    \/ StartRoundGame("a")
    \/ SubmitPickFind("a")
    \/ SubmitPickInsert("a")
    \/ SubmitPickPush("a")
    \/ SubmitPickSession("a")
    \/ SubmitPickMetrics("a")
    \/ SubmitPickRound("a")
    \/ SubmitPickGame("a")

SpecSummary == Init /\ [][NextSummary]_vars

\* Rounds and picks that overlap: one game set up by the calls of slot a,
\* then start_round and submit_pick in both slots, with RoundOverlaps calls
\* started while another is in flight.
InitRound ==
    /\ clock = 0
    /\ products = Catalog
    /\ games = <<>>
    /\ rng_seed = <<>>
    /\ game_rounds = <<>>
    /\ sessions = <<>>
    /\ selections = {}
    /\ prefix_ratings = <<>>
    /\ rec = [feature_space |-> <<>>, item_vectors |-> <<>>, rating_count |-> 0]
    /\ pbcf = [artifacts |-> <<>>]
    /\ started = FALSE
    /\ reqs = [s \in Slots |-> IdleReq]
    /\ overlaps = MaxOverlaps - RoundOverlaps
    /\ onboarding_accepts = 0
    /\ accepted_picks = [n \in Rounds |-> 0]
    /\ trains_since_rating = 0

NextRound ==
    \/ OnStartup
    \/ CreateGame("a", "ann", MaxTotalRounds, 0)
    \/ \E g \in GameIds :
        \/ GetOnboardingStart("a", g)
        \/ \E rating \in Ratings : SubmitOnboardingStart("a", g, ValidOnboarding, rating)
    \/ GetOnboardingSetPool("a")
    \/ SubmitOnboardingInsert("a")
    \/ SubmitOnboardingPush("a")
    \/ SubmitOnboardingRating("a")
    \/ SubmitOnboardingSession("a")
    \/ SubmitOnboardingGame("a")
    \/ \E s \in Slots :
        \/ \E g \in GameIds : StartRoundStart(s, g)
        \/ StartRoundFind(s)
        \/ StartRoundPicks(s)
        \/ StartRoundUpsert(s)
        \/ StartRoundGame(s)
        \/ \E g \in GameIds, n \in Rounds,
               product_id \in {OnboardingPicks + 1, OnboardingPicks + 3} :
              SubmitPickStart(s, g, n, product_id)
        \/ SubmitPickFind(s)
        \/ SubmitPickInsert(s)
        \/ SubmitPickPush(s)
        \/ SubmitPickSession(s)
        \/ SubmitPickMetrics(s)
        \/ SubmitPickRound(s)
        \/ SubmitPickGame(s)

SpecRound == InitRound /\ [][NextRound]_vars

\* Functions of the service applied to arguments drawn from small sets.
\* Slot a holds the call: its arguments, then its result.
CategoryWords == {" ", "\t", "movies", "Movies", "fountain_pens", "FOUNTAIN_PENS", "books"}
CategoryCalls ==
    {[IdleReq EXCEPT !.op = "normalize_category", !.pc = "call", !.ids = value] :
        value \in {<<>>} \cup {<<name>> : name \in UNION {[1..n -> CategoryWords] : n \in 0..3}}}

\* Catalogs for the onboarding sample: every price different; the cheaper
\* half at one price; every fourth product without price_min and every
\* fifth without vendor.
SampleKinds == {"plain", "tied", "sparse"}
SampleSizes == {3, 50, 51, 60, 75}
SampleCatalog(kind, n) ==
    [i \in 1..n |->
        IF kind = "tied" /\ i <= n \div 2 THEN [Product(i) EXCEPT !.price_min = 5]
        ELSE IF kind = "sparse" /\ i % 4 = 0
             THEN [id |-> i, vendor |-> VendorOf(i), price_max |-> 9 + 2 * i]
        ELSE IF kind = "sparse" /\ i % 5 = 0
             THEN [id |-> i, price_min |-> 5 + 2 * i, price_max |-> 9 + 2 * i]
        ELSE Product(i)]

\* Catalogs for the round candidates: the vendors in turn, or the ten
\* products of the highest ids all of one vendor.
\* or two vendors but for the products at ranks 62 and 63.
RankedKinds == {"mixed", "single", "scarce"}
RankedSizes == {120, 121, 150, 240}
RankedCatalog(kind, n) ==
    [i \in 1..n |->
        IF kind = "single" /\ i > n - RoundCandidates
        THEN [Product(i) EXCEPT !.vendor = "lamy"]
        ELSE IF kind = "scarce"
             THEN [Product(i) EXCEPT
                     !.vendor = IF n + 1 - i \in {62, 63} THEN "twsbi"
                                ELSE <<"lamy", "pilot">>[(i % 2) + 1]]
        ELSE Product(i)]
\* _rank_candidates under a state that scores every item alike: descending id
EvenRanking(n) == [k \in 1..n |-> [score |-> 0, id |-> n + 1 - k]]
RngChoices == 0..7 \cup {42}

InitCalls ==
    /\ \/ /\ products = Catalog
          /\ reqs \in {[s \in Slots |-> IF s = "a" THEN call ELSE IdleReq] :
                          call \in CategoryCalls}
       \/ \E kind \in SampleKinds, n \in SampleSizes, rng \in RngChoices :
             /\ products = SampleCatalog(kind, n)
             /\ reqs = [s \in Slots |->
                          IF s = "a"
                          THEN [IdleReq EXCEPT !.op = "diverse_onboarding_sample",
                                               !.pc = "call", !.index = rng]
                          ELSE IdleReq]
       \/ \E kind \in RankedKinds, n \in RankedSizes, rng \in RngChoices :
             /\ products = RankedCatalog(kind, n)
             /\ reqs = [s \in Slots |->
                          IF s = "a"
                          THEN [IdleReq EXCEPT !.op = "build_round_candidates",
                                               !.pc = "call", !.index = rng,
                                               !.scored = EvenRanking(n)]
                          ELSE IdleReq]
    /\ rec = [feature_space |-> <<>>, item_vectors |-> <<>>, rating_count |-> 0]
    /\ started = FALSE
    /\ clock = 0
    /\ games = <<>>
    /\ rng_seed = <<>>
    /\ game_rounds = <<>>
    /\ sessions = <<>>
    /\ selections = {}
    /\ prefix_ratings = <<>>
    /\ pbcf = [artifacts |-> <<>>]
    /\ overlaps = 0
    /\ onboarding_accepts = 0
    /\ accepted_picks = [n \in Rounds |-> 0]
    /\ trains_since_rating = 0

NormalizeCategoryCall ==
    /\ At("a", "normalize_category", "call")
    /\ reqs' = [reqs EXCEPT !["a"].pc = "done",
                            !["a"].response = <<NormalizeCategory(reqs["a"].ids)>>]
    /\ UNCHANGED <<clock, overlaps, products, games, rng_seed, game_rounds, sessions,
                   selections, prefix_ratings, rec, pbcf, started, onboarding_accepts,
                   accepted_picks, trains_since_rating>>

DiverseOnboardingSampleCall ==
    /\ At("a", "diverse_onboarding_sample", "call")
    /\ reqs' = [reqs EXCEPT !["a"].pc = "done",
                            !["a"].candidate_ids =
                                DiverseOnboardingSample(products, reqs["a"].index)]
    /\ UNCHANGED <<clock, overlaps, products, games, rng_seed, game_rounds, sessions,
                   selections, prefix_ratings, rec, pbcf, started, onboarding_accepts,
                   accepted_picks, trains_since_rating>>

BuildRoundCandidatesCall ==
    /\ At("a", "build_round_candidates", "call")
    /\ reqs' = [reqs EXCEPT !["a"].pc = "done",
                            !["a"].candidate_ids =
                                BuildRoundCandidates(reqs["a"].index, reqs["a"].scored)]
    /\ UNCHANGED <<clock, overlaps, products, games, rng_seed, game_rounds, sessions,
                   selections, prefix_ratings, rec, pbcf, started, onboarding_accepts,
                   accepted_picks, trains_since_rating>>

NextCalls ==
    \/ NormalizeCategoryCall
    \/ DiverseOnboardingSampleCall
    \/ BuildRoundCandidatesCall

SpecCalls == InitCalls /\ [][NextCalls]_vars

\* One PCF state, in slot a, under the two updates of PrefixCFModel: the
\* selections change the user vector, the ratings the bias.  snapshot holds
\* the state before the last update.
RatingCall(rating) ==
    /\ At("a", "update", "call")
    /\ reqs["a"].count < MaxUpdates
    /\ reqs' = [reqs EXCEPT !["a"].snapshot = reqs["a"].state,
                            !["a"].rating = rating,
                            !["a"].count = @ + 1,
                            !["a"].state = <<UpdateWithPrefixRating(reqs["a"].state[1], rating)>>]
    /\ UNCHANGED <<clock, overlaps, products, games, rng_seed, game_rounds, sessions,
                   selections, prefix_ratings, rec, pbcf, started, onboarding_accepts,
                   accepted_picks, trains_since_rating>>

SelectionCall(product_id) ==
    /\ At("a", "update", "call")
    /\ reqs["a"].index < MaxSelects
    /\ reqs' = [reqs EXCEPT !["a"].snapshot = <<>>,
                            !["a"].rating = 0,
                            !["a"].index = @ + 1,
                            !["a"].state = <<UpdateWithSelection(EnsureModel, reqs["a"].state[1],
                                                                ProductById(product_id), FALSE)>>]
    /\ UNCHANGED <<clock, overlaps, products, games, rng_seed, game_rounds, sessions,
                   selections, prefix_ratings, rec, pbcf, started, onboarding_accepts,
                   accepted_picks, trains_since_rating>>

InitRating ==
    /\ products = Catalog
    /\ rec = RefreshModel([feature_space |-> <<>>, item_vectors |-> <<>>, rating_count |-> 0])
    /\ reqs = [s \in Slots |->
                 IF s = "b" THEN IdleReq
                 ELSE [IdleReq EXCEPT !.op = "update", !.pc = "call",
                                      !.state = <<InitState(FeatureSpaceBuild(products))>>]]
    /\ started = TRUE
    /\ clock = 0
    /\ games = <<>>
    /\ rng_seed = <<>>
    /\ game_rounds = <<>>
    /\ sessions = <<>>
    /\ selections = {}
    /\ prefix_ratings = <<>>
    /\ pbcf = [artifacts |-> <<>>]
    /\ overlaps = 0
    /\ onboarding_accepts = 0
    /\ accepted_picks = [n \in Rounds |-> 0]
    /\ trains_since_rating = 0

NextRating ==
    \/ \E rating \in 1..5 : RatingCall(rating)
    \/ \E product_id \in {1, NumProducts} : SelectionCall(product_id)

SpecRating == InitRating /\ [][NextRating]_vars

\* ================================================================ properties
\* ---------------------------------------------------------------------- C1
\* C1: of the submit_pick calls for one round of one game, at most one is
\* accepted, however the calls overlap.
AtMostOnePickAcceptedPerRound == \A n \in Rounds : accepted_picks[n] <= 1

\* ---------------------------------------------------------------------- C2
\* C2: at most one round document exists for a (game_id, round_number), under
\* any interleaving of start_round and submit_pick.
OneRoundPerGameAndNumber ==
    \A i, j \in 1..Len(game_rounds) :
        (/\ game_rounds[i].game_id = game_rounds[j].game_id
         /\ game_rounds[i].round_number = game_rounds[j].round_number) => i = j

\* Two overlapping start_round calls have both written the same round
TwoStartRoundsWroteOneRound ==
    \E n \in Rounds :
        /\ \A s \in Slots : At(s, "start_round", "sr_game") /\ reqs[s].round_number = n
        /\ Cardinality(RoundIndexes("g1", n)) = 1

\* ---------------------------------------------------------------------- C3
\* C3: a completed game stays completed: no step moves its status away from
\* "completed", also when a start_round overlaps the last submit_pick.
CompletedIsFinal ==
    [][\A g \in DOMAIN games :
          games[g].status = "completed" => games'[g].status = "completed"]_vars

\* ---------------------------------------------------------------------- C4
\* The ids of a submit_onboarding the claim calls invalid for the game read
InvalidOnboardingIds(game, ids) ==
    \/ Len(ids) # 10
    \/ \E i, j \in 1..Len(ids) : i # j /\ ids[i] = ids[j]
    \/ \E k \in 1..Len(ids) : ids[k] \notin SeqToSet(game.onboarding_pool_ids)

\* C4: a submit_onboarding whose ids are not exactly ten, repeat an id or
\* name a product outside the onboarding pool is rejected, and the game, the
\* learning session, the selections and the ratings are left as they were.
InvalidOnboardingRejected ==
    [][\A s \in Slots :
          (/\ Free(s)
           /\ reqs'[s].op = "submit_onboarding"
           /\ reqs'[s].game_id \in DOMAIN games
           /\ InvalidOnboardingIds(games[reqs'[s].game_id], reqs'[s].ids))
          => (/\ reqs'[s].pc = "done"
              /\ ~reqs'[s].response[1].accepted
              /\ ~reqs'[s].wrote
              /\ db' = db)]_vars

\* A submission that repeats an id of the pool was rejected before any
\* submission was accepted
DuplicateOnboardingRejected ==
    \E s \in Slots :
        /\ reqs[s].op = "submit_onboarding"
        /\ Rejected(s)
        /\ reqs[s].response[1].detail = "Duplicate products are not allowed"
        /\ Len(reqs[s].ids) = 10
        /\ reqs[s].ids[10] = reqs[s].ids[1]
        /\ games[reqs[s].game_id].onboarding_pool_ids # <<>>
        /\ onboarding_accepts = 0

\* ---------------------------------------------------------------------- C5
\* C5: once a submit_onboarding of the game was accepted, every later
\* submit_onboarding is rejected as already submitted and changes nothing.
LaterOnboardingRejected ==
    [][\A s \in Slots :
          (/\ Free(s)
           /\ reqs'[s].op = "submit_onboarding"
           /\ onboarding_accepts > 0)
          => (/\ reqs'[s].pc = "done"
              /\ ~reqs'[s].response[1].accepted
              /\ reqs'[s].response[1].detail = "Onboarding already submitted for this game"
              /\ ~reqs'[s].wrote
              /\ db' = db)]_vars

\* A well-formed submission was rejected after an accepted one
SecondOnboardingWasRejected ==
    \E s \in Slots :
        /\ reqs[s].op = "submit_onboarding"
        /\ Rejected(s)
        /\ reqs[s].ids = ValidOnboarding
        /\ onboarding_accepts = 1
        /\ games[reqs[s].game_id].onboarding_selected_ids = ValidOnboarding

\* ---------------------------------------------------------------------- C6
\* The round documents of the pick the call in slot s is about
PickRoundDocs(s) ==
    {k \in 1..Len(game_rounds) : /\ game_rounds[k].game_id = reqs[s].game_id
                                 /\ game_rounds[k].round_number = reqs[s].round_number}

\* C6: a submit_pick is rejected, and the store is left as it was, when the
\* game it reads is complete or at another round, and when the round it
\* reads is not started, is completed, or does not offer the product.
InvalidPickRejected ==
    [][\A s \in Slots :
          /\ (/\ Free(s)
              /\ reqs'[s].op = "submit_pick"
              /\ reqs'[s].game_id \in DOMAIN games
              /\ LET game == games[reqs'[s].game_id]
                 IN  \/ game.current_round >= game.total_rounds
                     \/ reqs'[s].round_number # game.current_round + 1)
             => (/\ reqs'[s].pc = "done"
                 /\ ~reqs'[s].response[1].accepted
                 /\ db' = db)
          /\ (/\ At(s, "submit_pick", "sp_find")
              /\ reqs'[s].pc # "sp_find"
              /\ \/ PickRoundDocs(s) = {}
                 \/ \E k \in PickRoundDocs(s) :
                       \/ game_rounds[k].completed
                       \/ reqs[s].product_id \notin SeqToSet(game_rounds[k].candidate_ids))
             => (/\ reqs'[s].pc = "done"
                 /\ ~reqs'[s].response[1].accepted
                 /\ db' = db)
          /\ (/\ reqs'[s].op = "submit_pick"
              /\ reqs'[s].pc = "done"
              /\ ~reqs'[s].response[1].accepted)
             => ~reqs'[s].wrote]_vars

\* A pick was rejected because an overlapping pick had completed the round
PickOfCompletedRoundRejected ==
    \E s \in Slots :
        /\ reqs[s].op = "submit_pick"
        /\ Rejected(s)
        /\ reqs[s].response[1].detail = "Round has already been completed"
        /\ \E k \in PickRoundDocs(s) : game_rounds[k].completed

\* ---------------------------------------------------------------------- C7
\* C7: for an accepted pick the ranking is in descending score order, ties
\* by id; ai_rank_of_pick is the 1-based position of the pick in it; ai_exact
\* holds exactly at rank 1 and ai_correct exactly at ranks 1 to 3; the human
\* scores 10 exactly when ai_correct is false and the AI 10 exactly when it
\* is true.
PickScoredByRank ==
    \A s \in Slots :
        (reqs[s].op = "submit_pick" /\ Accepted(s)) =>
            LET scored == reqs[s].scored
                resp == reqs[s].response[1]
                rank == resp.ai_rank_of_pick
            IN  /\ \A i, j \in 1..Len(scored) :
                      i < j => \/ scored[i].score > scored[j].score
                               \/ /\ scored[i].score = scored[j].score
                                  /\ scored[i].id > scored[j].id
                /\ rank \in 1..Len(scored)
                /\ scored[rank].id = reqs[s].product_id
                /\ resp.ai_exact <=> rank = 1
                /\ resp.ai_correct <=> rank <= 3
                /\ resp.human_points = IF resp.ai_correct THEN 0 ELSE 10
                /\ resp.ai_points = IF resp.ai_correct THEN 10 ELSE 0

\* A pick the AI ranked third was accepted: correct, not exact
PickRankedThirdAccepted ==
    \E s \in Slots :
        /\ reqs[s].op = "submit_pick"
        /\ Accepted(s)
        /\ reqs[s].response[1].ai_rank_of_pick = 3
        /\ reqs[s].response[1].ai_correct
        /\ ~reqs[s].response[1].ai_exact
        /\ reqs[s].response[1].ai_points = 10

\* ---------------------------------------------------------------------- C8
\* C8: the ranking, the AI pick and the points of an accepted pick come from
\* the model state the call read, before the pick; the pick is absorbed as a
\* non-exception after the scoring, and the state persisted on the session
\* and on the game is the state read with the pick absorbed.
PickScoredBeforeAbsorbed ==
    [][\A s \in Slots :
          LET r == reqs[s]
              fs == rec.feature_space[1]
              before == r.game[1].model_state
              after == UpdateWithSelection(fs, before, ProductById(r.product_id), FALSE)
              ranking == RankCandidates(fs, before,
                             GetProductsByIds(game_rounds[r.round_idx].candidate_ids))
          IN  /\ (At(s, "submit_pick", "sp_session") /\ reqs'[s].pc = "sp_metrics")
                 => /\ sessions'[r.game[1].learning_session_id].state = <<after>>
                    /\ after.count = before.count + 1
              /\ (At(s, "submit_pick", "sp_game") /\ reqs'[s].pc = "done")
                 => /\ reqs'[s].scored = ranking
                    /\ reqs'[s].response[1].ai_pick = ranking[1].id
                    /\ reqs'[s].response[1].ai_correct =
                          (\E k \in 1..3 : ranking[k].id = r.product_id)
                    /\ games'[r.game_id].model_state = after]_vars

\* The pick of round 2 was accepted, scored with a state that holds the pick
\* of round 1
SecondRoundPickAccepted ==
    \E s \in Slots :
        /\ reqs[s].op = "submit_pick"
        /\ Accepted(s)
        /\ reqs[s].round_number = 2
        /\ reqs[s].game[1].model_state.count = 11
        /\ games[reqs[s].game_id].model_state.count = 12

\* ---------------------------------------------------------------------- C9
\* C9: between two rating insertions the recommender is trained at most
\* once, however often it is called.
AtMostOneTrainBetweenRatings == trains_since_rating <= 1

\* --------------------------------------------------------------------- C10
\* C10 as stated: a call that ran refresh has trained the PBCF model by the
\* time its PBCF reads are done, also when the rating count is unchanged.
RefreshForcesRetrain ==
    [][\A s \in Slots :
          (/\ reqs[s].pc = "pb_count"
           /\ reqs[s].refreshes > 0
           /\ reqs[s].checks = 1
           /\ reqs'[s].checks = 2)
          => reqs'[s].trains > 0]_vars

\* C10 as amended: refresh rebuilds the feature space and the item vectors
\* and leaves the tracked rating count as it was; the PBCF read that follows
\* trains exactly when the number of stored ratings differs from the tracked
\* count, and sets the tracked count to that number.
RefreshKeepsTrackedCount ==
    [][\A s \in Slots :
          /\ (reqs[s].pc = "rf_products" /\ reqs'[s].pc # "rf_products")
             => /\ rec'.feature_space = <<FeatureSpaceBuild(products)>>
                /\ Len(rec'.item_vectors) = Len(products)
                /\ rec'.rating_count = rec.rating_count
          /\ (/\ reqs[s].pc = "pb_count"
              /\ reqs[s].refreshes > 0
              /\ reqs'[s].checks = reqs[s].checks + 1)
             => /\ (reqs'[s].trains = reqs[s].trains + 1)
                      <=> (Len(prefix_ratings) # rec.rating_count)
                /\ (reqs'[s].trains = reqs[s].trains)
                      <=> (Len(prefix_ratings) = rec.rating_count)
                /\ rec'.rating_count = Len(prefix_ratings)]_vars

\* A call refreshed and read the PBCF model twice without a training pass,
\* the stored ratings being as many as the tracked count
RefreshedWithoutRetrain ==
    \E s \in Slots :
        /\ reqs[s].op = "recommend"
        /\ reqs[s].refreshes = 1
        /\ reqs[s].checks = 2
        /\ reqs[s].trains = 0
        /\ Len(prefix_ratings) > 0
        /\ rec.rating_count = Len(prefix_ratings)

\* --------------------------------------------------------------------- C13
\* The calls suspended inside refresh (at its read of the products) or
\* inside a PBCF training pass (at build_matrix's reads)
Writers == {s \in Slots : reqs[s].pc \in {"rf_products", "tr_build"}}

\* C13: no two executions of refresh or of a PBCF training pass overlap.
WritersSerialized == Cardinality(Writers) <= 1


\* --------------------------------------------------------------------- C12
\* No select_product or rate_prefix call is in flight
SessionCallsReturned ==
    \A s \in Slots : reqs[s].op \in {"select_product", "rate_prefix"} => reqs[s].pc = "done"
StateCount(session) == IF session.state = <<>> THEN 0 ELSE session.state[1].count

\* C12: once the select and rate calls of a session have returned, its
\* persisted state counts every Selection record of the session: no update
\* of the state is lost.
NoUpdateLost ==
    SessionCallsReturned =>
        \A sid \in ApiSessions \cap DOMAIN sessions :
            StateCount(sessions[sid]) =
                Cardinality({sel \in selections : sel.session_id = sid})

\* --------------------------------------------------------------------- C16
\* C16: every Selection record of a session carries a stored timestamp, and
\* no two records of one session share a timestamp.
SelectionsTimestamped ==
    \A sel \in selections :
        /\ sel.created_at # NoStamp
        /\ \A other \in selections \ {sel} :
              other.session_id = sel.session_id => other.created_at # sel.created_at

\* --------------------------------------------------------------------- C19
\* The products for which a session holds a Selection record
SelectedBy(session_id) ==
    {sel.product_id : sel \in {x \in selections : x.session_id = session_id}}
Recommended(response) ==
    {response.strong[k] : k \in 1..Len(response.strong)} \cup response.wildcard_pool

\* C19: the strong items and the wildcard of a recommend answer are never
\* products for which the session holds a Selection record.
RecommendExcludesSelected ==
    \A s \in Slots :
        (At(s, "recommend", "done") /\ reqs[s].response[1].accepted) =>
            Recommended(reqs[s].response[1]) \cap SelectedBy(reqs[s].session_id) = {}

\* The Selection records a session document lists
Listed(session) == {sel.product_id : sel \in {x \in selections : x.id \in session.selections}}

\* C19 (amended): the strong items and the wildcard of a recommend answer
\* are never products of the Selection records that the session document
\* listed when the route read it.
RecommendExcludesListed ==
    [][\A s \in Slots :
          (/\ reqs[s].op = "recommend" /\ reqs[s].pc # "done"
           /\ reqs'[s].pc = "done" /\ reqs'[s].response[1].accepted) =>
              Recommended(reqs'[s].response[1]) \cap Listed(reqs[s].session[1]) = {}]_vars

\* A recommend call answered for a session with a selection, which it left out
RecommendedAfterSelection ==
    \E s \in Slots :
        /\ At(s, "recommend", "done") /\ reqs[s].response[1].accepted
        /\ Len(reqs[s].response[1].strong) = 2
        /\ SelectedBy(reqs[s].session_id) # {}
        /\ Recommended(reqs[s].response[1]) \cap SelectedBy(reqs[s].session_id) = {}

\* --------------------------------------------------------------------- C20
\* The products of the store in the order of their ids
InIdOrder == [k \in 1..Len(products) |-> ProductById(SortAscending(CatalogIds)[k])]

\* C20: the feature space built from the catalog is the one built from the
\* same products in the order of their ids: the order in which build
\* receives the products changes neither feature_index nor the statistics.
BuildIgnoresOrder == started => rec.feature_space[1] = FeatureSpaceBuild(InIdOrder)

\* --------------------------------------------------------------------- C15
\* The Selection records logged for a session
Logged(session_id) == Cardinality({sel \in selections : sel.session_id = session_id})

\* C15: whichever store calls were cancelled, no persisted state (of a
\* session, or of a game) has absorbed more selections than the session's log
\* of Selection records holds: a selection enters the log before a state
\* that absorbed it is written.
StateWithinLog ==
    /\ \A sid \in DOMAIN sessions : StateCount(sessions[sid]) <= Logged(sid)
    /\ \A g \in DOMAIN games : games[g].model_state.count <= Logged(games[g].learning_session_id)

\* A submit_pick cancelled after its insert, before its write of the state
PickCancelledBeforeStateWrite ==
    \E s \in Slots, g \in DOMAIN games :
        /\ At(s, "submit_pick", "done") /\ reqs[s].response[1].detail = "cancelled"
        /\ reqs[s].wrote
        /\ games[g].model_state.count = OnboardingPicks
        /\ Logged(games[g].learning_session_id) = OnboardingPicks + 1

\* --------------------------------------------------------------------- C18
\* The products of the Selection records a session document lists, in the
\* order of their timestamps
ListedInTimestampOrder(session) ==
    LET found == ById({sel \in selections : sel.id \in session.selections})
        sorted == SortByCreatedAt(found, 1..Len(found))
    IN  [k \in 1..Len(sorted) |-> sorted[k].product_id]

\* C18: the current prefix that recommend builds is the sequence of the
\* session's selections in the order of their timestamps, the order of the
\* prefix keys that PBCF training computes.
RecommendPrefixInTimestampOrder ==
    \A s \in Slots :
        At(s, "recommend", "rc_candidates") =>
            reqs[s].selected_ids = ListedInTimestampOrder(reqs[s].session[1])

\* --------------------------------------------------------------------- C17
IsPrefix(u, v) == Len(u) <= Len(v) /\ SubSeq(v, 1, Len(u)) = u
\* The ratings of the store that carry a timestamp
StampedRatings == {k \in 1..Len(prefix_ratings) : prefix_ratings[k].created_at # NoStamp}
\* The selections stored for the session of a rating, by rising timestamp
SelectionSequence(rating) ==
    LET found == ById({sel \in selections : /\ sel.session_id = rating.session_id
                                            /\ sel.sid_kind = rating.sid_kind})
        sorted == SortByCreatedAt(found, 1..Len(found))
    IN  [k \in 1..Len(sorted) |-> sorted[k].product_id]

\* C17: the prefix keys that _prefix_key_for_rating resolves for the ratings
\* of one session form a chain, any two distinct keys being a proper prefix
\* one of the other, and each key is a prefix of the session's selections in
\* timestamp order.
PrefixKeysFormChain ==
    \A i \in StampedRatings :
        /\ IsPrefix(PrefixKeyForRating(prefix_ratings[i]), SelectionSequence(prefix_ratings[i]))
        /\ \A j \in StampedRatings :
              prefix_ratings[i].session_id = prefix_ratings[j].session_id =>
                  \/ IsPrefix(PrefixKeyForRating(prefix_ratings[i]),
                              PrefixKeyForRating(prefix_ratings[j]))
                  \/ IsPrefix(PrefixKeyForRating(prefix_ratings[j]),
                              PrefixKeyForRating(prefix_ratings[i]))

\* Two ratings of one session whose keys differ, the shorter one shorter
\* than the sequence of the session's selections
TwoKeysOfOneSession ==
    \E i, j \in StampedRatings :
        /\ prefix_ratings[i].session_id = prefix_ratings[j].session_id
        /\ Len(PrefixKeyForRating(prefix_ratings[i])) = OnboardingPicks
        /\ Len(PrefixKeyForRating(prefix_ratings[j])) > OnboardingPicks
        /\ Len(PrefixKeyForRating(prefix_ratings[i])) < Len(SelectionSequence(prefix_ratings[i]))

\* --------------------------------------------------------------------- C11
\* The width of the recommender's current feature space
Width == Len(rec.feature_space[1].feature_index)

\* C11: a step that scores or updates a PCF state and goes on does so with a
\* state whose user_vec has the width of the current feature space.
StateWidthIsCurrent ==
    [][\A s \in Slots :
          /\ (reqs[s].pc \in {"idle", "done"} /\ reqs'[s].pc = "so_insert") =>
                Len(reqs'[s].game[1].model_state.user_vec) = Width
          /\ (At(s, "start_round", "sr_picks") /\ reqs'[s].pc = "sr_upsert") =>
                Len(reqs[s].game[1].model_state.user_vec) = Width
          /\ (At(s, "submit_pick", "sp_find") /\ reqs'[s].pc = "sp_insert") =>
                Len(reqs[s].game[1].model_state.user_vec) = Width
          /\ (/\ reqs[s].op = "recommend" /\ reqs[s].pc # "done"
              /\ reqs'[s].pc = "done" /\ reqs'[s].response[1].accepted) =>
                Len(LoadState(rec.feature_space[1], reqs[s].session[1]).user_vec) = Width]_vars

\* --------------------------------------------------------------------- C14
\* The step of a call has vectorized the candidates: it went on, or numpy
\* raised on their vectors
Vectorized(s, next_pc) ==
    \/ reqs'[s].pc = next_pc
    \/ reqs'[s].pc = "done" /\ reqs'[s].response[1].detail = ShapeError

\* C14: a call that scores candidates does so with the model it was given at
\* its start and vectors of one and the same feature space, also when a
\* refresh ran while the call was suspended.
ModelAndVectorsOfOneSpace ==
    [][\A s \in Slots :
          /\ (At(s, "start_round", "sr_picks") /\ Vectorized(s, "sr_upsert")) =>
                reqs[s].model = rec.feature_space
          /\ (At(s, "submit_pick", "sp_find") /\ Vectorized(s, "sp_insert")) =>
                reqs[s].model = rec.feature_space]_vars


\* --------------------------------------------------------------------- C21
\* C21: the feature space built over a catalog that mixes pens and movies
\* holds a category-qualified statistics key, cat::<category>::num::<field>_z,
\* for every numeric field of a category that has a value in some item of
\* that category, and every catalog item vectorizes to a vector as wide as
\* the feature index with at least one non-zero entry.
MixedBuildKeepsCategoryStatistics ==
    started =>
        LET fs == rec.feature_space[1]
        IN  /\ \A k \in 1..Len(products) :
                 \A field \in NumericFields(products[k].category) :
                    field \in DOMAIN products[k]
                    => Contains(fs.feature_index,
                                "cat::" \o products[k].category \o "::num::" \o field \o "_z")
            /\ \A k \in 1..Len(rec.item_vectors) :
                 LET vec == rec.item_vectors[k].vec
                 IN  /\ Len(vec) = Len(fs.feature_index)
                     /\ \E j \in 1..Len(vec) : vec[j] # 0


\* --------------------------------------------------------------------- C22
\* The features other than the price z-scores that carry the largest
\* absolute weight of the state handed to detect_hidden_preferences and occur
\* in none of the selected products
AbsentPeaks ==
    LET fs == EnsureModel
        user_vec == reqs["a"].state[1].user_vec
        selected == GetProductsByIds(reqs["a"].selected_ids)
    IN  {k \in 1..Len(fs.feature_index) :
            /\ fs.feature_index[k] \notin {"price_min_z", "price_max_z"}
            /\ user_vec[k] # 0
            /\ \A j \in 1..Len(user_vec) : Abs(user_vec[j]) <= Abs(user_vec[k])
            /\ \A j \in 1..Len(selected) : Vectorize(fs, selected[j])[k] = 0}
ReportedFeatures ==
    {reqs["a"].response[1][i].feature : i \in 1..Len(reqs["a"].response[1])}

SummaryExcludesSelections ==
    \A s \in Slots :
        At(s, "get_game_summary", "done") /\ Accepted(s) =>
            LET summary == reqs[s].response[1]
                selected == SeqToSet(games[reqs[s].game_id].onboarding_selected_ids)
                            \cup {game_rounds[k].human_pick_id :
                                    k \in {j \in 1..Len(game_rounds) :
                                             /\ game_rounds[j].game_id = reqs[s].game_id
                                             /\ game_rounds[j].completed}}
            IN  /\ SeqToSet(summary.top5_recommendations) \subseteq CatalogIds \ selected
                /\ SeqToSet(summary.hidden_gems_products)
                   \cap SeqToSet(summary.top5_recommendations) = {}


\* --------------------------------------------------------------------- C26
\* C26: a game operation (onboarding, onboarding submit, round start, pick,
\* status, summary) called with the id of no stored game is answered with
\* NotFound, HTTP 404 and not the 400 of a validation failure, and has
\* written no document.
MissingGameIsNotFound ==
    \A s \in Slots :
        /\ reqs[s].pc = "done"
        /\ reqs[s].op \in {"get_onboarding", "submit_onboarding", "start_round",
                           "submit_pick", "get_game_status", "get_game_summary"}
        /\ reqs[s].response[1].detail = "Game not found"
        => HttpStatus(reqs[s]) = 404 /\ ~reqs[s].wrote


\* --------------------------------------------------------------------- C25
\* C25: normalize_category returns fountain_pens for None and for an empty or
\* blank name, the normalized identifier for a supported name, and fails with
\* the unsupported-category error for any other name.
CategoryDefaultsWhenBlank ==
    At("a", "normalize_category", "done") =>
        LET value == reqs["a"].ids
            result == reqs["a"].response[1]
            blank == value # <<>> /\ \A k \in 1..Len(value[1]) : value[1][k] \in Whitespace
            words == IF value = <<>> THEN <<>>
                     ELSE SelectSeq(value[1], LAMBDA w : w \notin Whitespace)
            Padded(w) == /\ value # <<>>
                         /\ \E k \in 1..Len(value[1]) :
                               /\ value[1][k] = w
                               /\ \A j \in 1..Len(value[1]) \ {k} : value[1][j] \in Whitespace
            supported == \E w \in {"movies", "Movies", "fountain_pens", "FOUNTAIN_PENS"} : Padded(w)
        IN  /\ value = <<>> \/ blank => result.accepted /\ result.category = "fountain_pens"
            /\ supported => /\ result.accepted
                            /\ result.category = IF words[1] \in {"movies", "Movies"}
                                                 THEN "movies" ELSE "fountain_pens"
            /\ ~(value = <<>> \/ blank \/ supported)
               => ~result.accepted /\ result.detail = "Unsupported category"


\* --------------------------------------------------------------------- C27
\* The gap between a rating and the prediction of a state, and the
\* prediction before it is clamped to 1.0..5.0, in thousandths
RatingGap(state, rating) == Abs(rating * Scale - PredictPrefixRating(state))
UnclampedPrediction(state) ==
    ScoreBaseMilli + (RatingTanhMilli * TanhMilli(Norm(state.user_vec) \div 3)) \div Scale
    + state.bias

\* C27 as stated: for a fixed user vector and rating r in 1..5, an
\* application of update_with_prefix_rating(r) makes |r - predict_prefix_rating|
\* strictly smaller while it is not zero, also from a bias under which the
\* unclamped prediction lies outside 1.0..5.0.  (A gap below 0.004 is zero at
\* the resolution of the thousandths.)
RatingGapShrinks ==
    reqs["a"].op = "update" /\ reqs["a"].snapshot # <<>>
    /\ RatingGap(reqs["a"].snapshot[1], reqs["a"].rating) >= 4
    => RatingGap(reqs["a"].state[1], reqs["a"].rating)
       < RatingGap(reqs["a"].snapshot[1], reqs["a"].rating)

\* C27 (amended): an application of update_with_prefix_rating(r) never makes
\* the gap larger; it makes a non-zero gap strictly smaller when the unclamped
\* prediction of the state it is applied to lies within 1.0..5.0.
RatingGapNeverGrows ==
    reqs["a"].op = "update" /\ reqs["a"].snapshot # <<>> =>
        LET before == reqs["a"].snapshot[1]
            after == reqs["a"].state[1]
            rating == reqs["a"].rating
        IN  /\ RatingGap(after, rating) <= RatingGap(before, rating)
            /\ /\ RatingGap(before, rating) >= 4
               /\ UnclampedPrediction(before) >= MinRatingMilli
               /\ UnclampedPrediction(before) <= MaxRatingMilli
               => RatingGap(after, rating) < RatingGap(before, rating)

\* a rating applied to a state whose unclamped prediction is above 5.0
RatedWhileClamped ==
    /\ reqs["a"].op = "update" /\ reqs["a"].snapshot # <<>>
    /\ UnclampedPrediction(reqs["a"].snapshot[1]) > MaxRatingMilli
    /\ reqs["a"].rating < 5


\* C29: every round record holds exactly 10 distinct candidate ids, none of
\* them one of the game's onboarding selections or the human pick of an
\* earlier completed round of the same game.
RoundCandidatesAreUnused ==
    \A k \in 1..Len(game_rounds) :
        LET round_doc == game_rounds[k]
            candidate_ids == round_doc.candidate_ids
            game == games[round_doc.game_id]
        IN  /\ Len(candidate_ids) = RoundCandidates
            /\ Cardinality(SeqToSet(candidate_ids)) = RoundCandidates
            /\ \A i \in 1..Len(candidate_ids) :
                  /\ ~Contains(game.onboarding_selected_ids, candidate_ids[i])
                  /\ \A j \in 1..Len(game_rounds) :
                        /\ game_rounds[j].game_id = round_doc.game_id
                        /\ game_rounds[j].round_number < round_doc.round_number
                        /\ game_rounds[j].completed
                        => game_rounds[j].human_pick_id # candidate_ids[i]

\* The bucket _diverse_onboarding_sample puts a catalog item in
PriceTercile(p) ==
    IF PriceMinOrZero(p) <= SortedPriceAt(products, Len(products) \div 3) THEN "low"
    ELSE IF PriceMinOrZero(p) <= SortedPriceAt(products, (2 * Len(products)) \div 3)
         THEN "mid"
    ELSE "high"
TercileIds(tercile) ==
    {products[i].id : i \in {j \in 1..Len(products) : PriceTercile(products[j]) = tercile}}
TercilesHoldTargets ==
    /\ Cardinality(TercileIds("low")) >= LowTarget
    /\ Cardinality(TercileIds("mid")) >= MidTarget
    /\ Cardinality(TercileIds("high")) >= HighTarget

\* C28: the onboarding pool holds catalog ids only and none twice; it has 50
\* ids when the catalog has more than 50 items and every catalog id when it
\* has 50 or fewer; when each price tercile holds its target, 17 ids of the
\* pool are of the low tercile, 17 of the mid and 16 of the high.
OnboardingPoolContract ==
    At("a", "diverse_onboarding_sample", "done") =>
        LET pool_ids == reqs["a"].candidate_ids
            pool == {pool_ids[i] : i \in 1..Len(pool_ids)}
        IN  /\ pool \subseteq CatalogIds
            /\ Cardinality(pool) = Len(pool_ids)
            /\ Len(products) > OnboardingPoolSize => Len(pool_ids) = OnboardingPoolSize
            /\ Len(products) <= OnboardingPoolSize => pool = CatalogIds
            /\ Len(products) > OnboardingPoolSize /\ TercilesHoldTargets =>
                  /\ Cardinality(pool \cap TercileIds("low")) = LowTarget
                  /\ Cardinality(pool \cap TercileIds("mid")) = MidTarget
                  /\ Cardinality(pool \cap TercileIds("high")) = HighTarget

\* a pool drawn from a catalog of more than 50 items, some without price_min,
\* whose terciles hold their targets
PoolOfSparseCatalog ==
    /\ At("a", "diverse_onboarding_sample", "done")
    /\ Len(products) > OnboardingPoolSize
    /\ TercilesHoldTargets
    /\ \E i \in 1..Len(products) : "price_min" \notin DOMAIN products[i]
    /\ Len(reqs["a"].candidate_ids) = OnboardingPoolSize

\* The candidates of the call among the ranks first + 1 .. last of its ranking
DrawnOfRanks(first, last) ==
    {reqs["a"].scored[k].id : k \in (first + 1)..Min(last, Len(reqs["a"].scored))}
        \cap {reqs["a"].candidate_ids[i] : i \in 1..Len(reqs["a"].candidate_ids)}

\* C30 as stated: with at least 120 items ranked, the candidate list holds 6
\* items of the top-20 ranks and 4 items of ranks 20..120.
SixLikelyFourNearBoundary ==
    At("a", "build_round_candidates", "done") /\ Len(reqs["a"].scored) >= NearBoundaryRanks
    => /\ Cardinality(DrawnOfRanks(0, LikelyRanks)) = LikelyDraw
       /\ Cardinality(DrawnOfRanks(LikelyRanks, NearBoundaryRanks))
            = RoundCandidates - LikelyDraw

\* C30 (amended): the targets 6, 8 and 10 are lengths of the list.  With at
\* least 120 items ranked the list holds 10 ids, at least 6 of the top-20
\* ranks and at least 2 of ranks 20..120; when the pool of the bottom half
\* holds 4 items or more, it holds exactly 6 of the top-20 ranks, 2 of ranks
\* 20..120 and 2 more of that pool.
SixLikelyTwoNearTwoDiverse ==
    At("a", "build_round_candidates", "done") /\ Len(reqs["a"].scored) >= NearBoundaryRanks
    => LET scored == reqs["a"].scored
           drawn == {reqs["a"].candidate_ids[i] : i \in 1..Len(reqs["a"].candidate_ids)}
           likely == DrawnOfRanks(0, LikelyRanks)
           near_boundary == DrawnOfRanks(LikelyRanks, NearBoundaryRanks)
           pool == DiversePool([k \in 1..Len(scored) |-> scored[k].id])
           diverse == {pool[i] : i \in 1..Len(pool)}
       IN  /\ Cardinality(drawn) = RoundCandidates
           /\ Len(reqs["a"].candidate_ids) = RoundCandidates
           /\ Cardinality(likely) >= LikelyDraw
           /\ Cardinality(near_boundary) >= NearBoundaryDraw - LikelyDraw
           /\ Cardinality(diverse) >= 4 =>
                 /\ Cardinality(likely) = LikelyDraw
                 /\ \E x, y \in near_boundary :
                       /\ x # y
                       /\ Cardinality((drawn \ likely) \ {x, y}) = 2
                       /\ (drawn \ likely) \ {x, y} \subseteq diverse

\* candidates of a ranking of 240 items: two of them of ranks beyond 120
TwoDrawnBeyondNearBoundary ==
    /\ At("a", "build_round_candidates", "done")
    /\ Len(reqs["a"].scored) > 2 * NearBoundaryRanks - 1
    /\ Cardinality(DrawnOfRanks(NearBoundaryRanks, Len(reqs["a"].scored))) = 2
    /\ Cardinality(DrawnOfRanks(LikelyRanks, NearBoundaryRanks)) = 2

StartRoundRejectedOutsidePlay ==
    [][\A s \in Slots : \A g \in DOMAIN games :
          (/\ StartRoundStart(s, g)
           /\ \/ Len(games[g].onboarding_selected_ids) < OnboardingPicks
              \/ games[g].current_round >= games[g].total_rounds)
          => /\ Rejected(s)'
             /\ reqs'[s].response[1].detail =
                   IF Len(games[g].onboarding_selected_ids) < OnboardingPicks
                   THEN "Onboarding is incomplete" ELSE "Game is complete"
             /\ games' = games
             /\ game_rounds' = game_rounds]_vars
\* A start_round was rejected because the game had played all its rounds
StartRoundOfCompleteGameRejected ==
    \E s \in Slots :
        /\ reqs[s].op = "start_round"
        /\ Rejected(s)
        /\ reqs[s].response[1].detail = "Game is complete"
        /\ games[reqs[s].game_id].current_round = games[reqs[s].game_id].total_rounds


\* C33: start_round is idempotent while a round is open: a game has one
\* record per round number, and the round number and candidates an accepted
\* start_round returns are those of the persisted record of that round.
StartRoundReturnsPersistedRound ==
    /\ \A j, k \in 1..Len(game_rounds) :
          (/\ game_rounds[j].game_id = game_rounds[k].game_id
           /\ game_rounds[j].round_number = game_rounds[k].round_number) => j = k
    /\ \A s \in Slots :
          (reqs[s].op = "start_round" /\ Accepted(s)) =>
              \E k \in 1..Len(game_rounds) :
                  /\ game_rounds[k].game_id = reqs[s].game_id
                  /\ game_rounds[k].round_number = reqs[s].response[1].round_number
                  /\ game_rounds[k].candidate_ids = reqs[s].response[1].candidates
                  /\ game_rounds[k].pre_metrics = reqs[s].response[1].pre_round_metrics


\* C34: in every state human_score + ai_score = 10 * current_round and both
\* scores are non-negative multiples of 10; no step lowers a score.
ScoresSumToRounds ==
    \A g \in DOMAIN games :
        /\ games[g].human_score + games[g].ai_score = PointsPerRound * games[g].current_round
        /\ games[g].human_score >= 0 /\ games[g].human_score % PointsPerRound = 0
        /\ games[g].ai_score >= 0 /\ games[g].ai_score % PointsPerRound = 0
ScoresAddUpAndNeverDecrease ==
    [][/\ ScoresSumToRounds'
       /\ \A g \in DOMAIN games :
             /\ games'[g].human_score >= games[g].human_score
             /\ games'[g].ai_score >= games[g].ai_score]_vars


\* C35: whenever no request is in flight (requests may have been cancelled
\* between two of their writes), a game's current_round is the number of
\* its completed round records, lies in 0..total_rounds, and the status is
\* "completed" exactly when current_round = total_rounds.
CompletedRoundsOf(g) ==
    {k \in 1..Len(game_rounds) : game_rounds[k].game_id = g /\ game_rounds[k].completed}
RoundCounterMatchesRecords ==
    (\A s \in Slots : Free(s)) =>
        \A g \in DOMAIN games :
            /\ games[g].current_round = Cardinality(CompletedRoundsOf(g))
            /\ games[g].current_round >= 0
            /\ games[g].current_round <= games[g].total_rounds
            /\ (games[g].status = "completed") <=> (games[g].current_round = games[g].total_rounds)


\* C36: the rounds of a game are played in order: the round numbers of its
\* records are exactly 1..k, one record each, and only the highest-numbered
\* round can be not completed (so round n + 1 exists only once round n is
\* completed).
RoundRecordsOf(g) == {k \in 1..Len(game_rounds) : game_rounds[k].game_id = g}
RoundsPlayedInOrder ==
    \A g \in DOMAIN games :
        LET count == Cardinality(RoundRecordsOf(g))
        IN  /\ {game_rounds[k].round_number : k \in RoundRecordsOf(g)} = 1..count
            /\ \A k \in RoundRecordsOf(g) :
                  ~game_rounds[k].completed => game_rounds[k].round_number = count
\* Round 2 was created after round 1 was completed, and is open
SecondRoundOpenAfterFirst ==
    \E j, k \in 1..Len(game_rounds) :
        /\ game_rounds[j].game_id = game_rounds[k].game_id
        /\ game_rounds[j].round_number = 1 /\ game_rounds[j].completed
        /\ game_rounds[k].round_number = 2 /\ ~game_rounds[k].completed


\* C37: of the submit_onboarding calls for a game at most one is accepted,
\* also when two of them overlap; once they have returned (and before any
\* round is started) the learning session holds exactly 10 Selections and 1
\* PrefixRating and the game's model_state has count 10.
OneOnboardingPerGame ==
    /\ onboarding_accepts <= 1
    /\ \A g \in DOMAIN games :
          (/\ \A s \in Slots : Free(s)
           /\ games[g].onboarding_selected_ids # <<>>
           /\ game_rounds = <<>>)
          => /\ Cardinality({d \in selections :
                                d.session_id = games[g].learning_session_id})
                  = OnboardingPicks
             /\ Cardinality({i \in 1..Len(prefix_ratings) :
                                prefix_ratings[i].session_id = games[g].learning_session_id})
                  = 1
             /\ games[g].model_state.count = OnboardingPicks


\* C38: when a submit_pick has been accepted, possibly as the repeat of a
\* call cancelled after its Selection insert, the learning session's log
\* (10 onboarding Selections, one per onboarding id) holds exactly one
\* Selection per completed round: its length is 10 + the number of completed
\* rounds, which is also the count of the persisted model_state.
LearningLog(g) == {d \in selections : d.session_id = games[g].learning_session_id}
OnboardingLoggedOnce(g) ==
    \A i \in 1..Len(games[g].onboarding_selected_ids) :
        Cardinality({d \in LearningLog(g) :
                        d.product_id = games[g].onboarding_selected_ids[i]}) = 1
OneSelectionPerCompletedRound ==
    \A s \in Slots :
        (At(s, "submit_pick", "done") /\ Accepted(s) /\ OnboardingLoggedOnce(reqs[s].game_id))
        => LET g == reqs[s].game_id
           IN  /\ \A k \in CompletedRoundsOf(g) :
                     Cardinality({d \in LearningLog(g) :
                                     d.product_id = game_rounds[k].human_pick_id}) = 1
               /\ Cardinality(LearningLog(g))
                     = OnboardingPicks + Cardinality(CompletedRoundsOf(g))
               /\ games[g].model_state.count = Cardinality(LearningLog(g))


\* --------------------------------------------------------------------- C39
\* One player on a fixed catalog, one call after the other and none of them
\* failing: the game created, the onboarding pool asked and 10 of its items
\* submitted, then start_round and submit_pick of one of the candidates the
\* start_round returned, in turn, until the game is completed.
PlayCatalog == [i \in 1..(2 * OnboardingPicks + MaxTotalRounds) |-> Product(i)]

InitPlay ==
    /\ clock = 0
    /\ products \in {Catalog, PlayCatalog}
    /\ games = <<>>
    /\ rng_seed = <<>>
    /\ game_rounds = <<>>
    /\ sessions = <<>>
    /\ selections = {}
    /\ prefix_ratings = <<>>
    /\ rec = [feature_space |-> <<>>, item_vectors |-> <<>>, rating_count |-> 0]
    /\ pbcf = [artifacts |-> <<>>]
    /\ started = FALSE
    /\ reqs = [s \in Slots |-> IdleReq]
    /\ overlaps = 0
    /\ onboarding_accepts = 0
    /\ accepted_picks = [n \in Rounds |-> 0]
    /\ trains_since_rating = 0

\* The player's next call, from what the game and the last response show
OnboardingAccepted(g) == g \in DOMAIN games /\ games[g].onboarding_selected_ids # <<>>
RoundOffered == reqs["a"].op = "start_round" /\ Accepted("a")

\* The player's calls
PlayCall ==
    \/ \E total_rounds \in Rounds : CreateGame("a", "ann", total_rounds, 0)
    \/ \E g \in DOMAIN games :
        \/ /\ games[g].onboarding_pool_ids = <<>>
           /\ GetOnboardingStart("a", g)
        \/ /\ games[g].onboarding_pool_ids # <<>>
           /\ ~OnboardingAccepted(g)
           /\ \E rating \in Ratings : SubmitOnboardingStart("a", g, ValidOnboarding, rating)
        \/ /\ OnboardingAccepted(g)
           /\ games[g].status # "completed"
           /\ ~RoundOffered
           /\ StartRoundStart("a", g)
        \/ /\ RoundOffered
           /\ \E k \in 1..Len(reqs["a"].response[1].candidates) :
                 SubmitPickStart("a", g, reqs["a"].response[1].round_number,
                                 reqs["a"].response[1].candidates[k])
\* The handlers' store calls
PlayWrite ==
    \/ GetOnboardingSetPool("a")
    \/ SubmitOnboardingInsert("a")
    \/ SubmitOnboardingPush("a")
    \/ SubmitOnboardingRating("a")
    \/ StartRoundFind("a")
    \/ StartRoundUpsert("a")
    \/ StartRoundGame("a")
    \/ SubmitPickInsert("a")
    \/ SubmitPickPush("a")
    \/ SubmitPickSession("a")
    \/ SubmitPickRound("a")
    \/ SubmitPickGame("a")
\* The steps that rank, score or train before they write
PlayCompute ==
    \/ OnStartup
    \/ SubmitOnboardingSession("a")
    \/ SubmitOnboardingGame("a")
    \/ StartRoundPicks("a")
    \/ SubmitPickFind("a")
    \/ SubmitPickMetrics("a")
\* A PlayCompute step is enabled exactly at its position and leaves it
Computing ==
    \/ ~started
    \/ reqs["a"].pc \in {"so_session", "so_game", "sr_picks", "sp_find", "sp_metrics"}

NextPlay == PlayCall \/ PlayWrite \/ PlayCompute

\* The event loop runs every handler to its end and the player keeps
\* calling.  The weak fairness of PlayCompute is stated by its positions:
\* such a step is enabled whenever the run is at its position and leaves the
\* position, so WF_vars(PlayCompute) is []<>~Computing.
SpecPlay ==
    /\ InitPlay /\ [][NextPlay]_vars
    /\ WF_vars(PlayCall) /\ WF_vars(PlayWrite)
    /\ []<>~Computing

\* C39: in a failure-free sequential run over a fixed catalog of at least
\* 20 + total_rounds items, no start_round and no submit_pick of a returned
\* candidate is rejected, a game whose onboarding was accepted reaches the
\* status "completed", and it is completed exactly when total_rounds picks
\* have been accepted.
CatalogSuffices(g) == Len(products) >= 2 * OnboardingPicks + games[g].total_rounds
AcceptedPicks == SumSeq(accepted_picks)
PlayNeverRejected ==
    \A g \in DOMAIN games :
        CatalogSuffices(g) =>
            /\ (reqs["a"].op \in {"start_round", "submit_pick"} /\ reqs["a"].pc = "done")
                   => Accepted("a")
            /\ AcceptedPicks <= games[g].total_rounds
            /\ (games[g].status = "completed") <=> (AcceptedPicks = games[g].total_rounds)
PlayedGameCompletes ==
    /\ []PlayNeverRejected
    /\ \A g \in GameIds :
          (OnboardingAccepted(g) /\ CatalogSuffices(g))
              ~> (/\ g \in DOMAIN games
                  /\ games[g].status = "completed"
                  /\ AcceptedPicks = games[g].total_rounds)
\* A game of two rounds on the catalog of 22 items was played to its end
TwoRoundGamePlayedOut ==
    \E g \in DOMAIN games :
        /\ Len(products) = 2 * OnboardingPicks + games[g].total_rounds
        /\ games[g].total_rounds = MaxTotalRounds
        /\ games[g].status = "completed"
        /\ AcceptedPicks = MaxTotalRounds
        /\ At("a", "submit_pick", "done") /\ Accepted("a")
====
